---- MODULE Spec2Model ----
(***************************************************************************)
(* Ledger engine of the blockchain voting system: Block (block.py), the    *)
(* Blockchain and its append / validate / replace operations (chain.py),   *)
(* the Miner with its background loop (mining.py), the ForkHandler         *)
(* (fork_handler.py) and the demonstration tampering of the shell          *)
(* (cli.py).                                                               *)
(*                                                                         *)
(* A SHA-256 digest is modelled by a record [hex, pre]: hex are the first  *)
(* two characters of the digest, computed from the hashed fields (one of   *)
(* HashSpace values, so that a character is '0' once in four rather than   *)
(* once in sixteen), and pre is the hashed content, standing for the rest  *)
(* the digest (two digests are equal exactly when their contents are, the  *)
(* collision freedom the ledger relies on).  Difficulties are therefore    *)
(* at most two.                                                            *)
(***************************************************************************)
EXTENDS Integers, Sequences, FiniteSets, TLC

VARIABLES chain, pending_data, difficulty, miner_difficulty, on_block_mined,
          mining_thread, mined_block, stop_mining, hook_calls, last,
          is_active

\* mining_thread: where the thread of Miner._mining_loop stands, "none" when
\*   no such thread is alive; mined_block: the block that thread is building;
\* stop_mining: the Event of that name; hook_calls: the blocks on_block_mined
\*   has been called with, in order; is_active: the field of that name of
\*   the Election on the chain
vars == <<chain, pending_data, difficulty, miner_difficulty, on_block_mined,
          mining_thread, mined_block, stop_mining, hook_calls, last,
          is_active>>

\* ------------------------------------------------------------------ bounds
MaxChain == 3
MaxPayload == 3
HashSpace == 16

\* ------------------------------------------------------- input universes
DifficultyValues == {1, 2}
Timestamps == {1, 2}
MinerAddress == "m1"
PeerAddress == "peer"
TamperKeys == {"message", "miner", "vote", "candidate", "nokey"}
TamperValues == {"Evil"}

Min(a, b) == IF a < b THEN a ELSE b

\* ---------------------------------------------------------------- payloads
\* A payload is a dictionary: keys are the keys it holds, "" an absent value.
\* cast_vote builds the vote transaction of the voting application.
cast_vote(voter_id, candidate) ==
    [keys |-> {"type", "voter_id", "public_key", "candidate", "election_id",
               "timestamp", "signature"},
     voter_id |-> voter_id, vote |-> "", candidate |-> candidate]

\* a transaction-shaped payload {voter_id, vote}
PlainTx(voter_id, vote) ==
    [keys |-> {"voter_id", "vote"}, voter_id |-> voter_id, vote |-> vote,
     candidate |-> ""]

\* the k-th payload handed to add_data: payloads are opaque to the ledger, so
\* they are told apart by k alone, and come in the two shapes
Payload(k) == IF k % 2 = 1 THEN cast_vote(k, "A") ELSE PlainTx(k, "B")

\* ------------------------------------------------------------------ Block
\* '0' * 64, the previous hash of a genesis block
ZeroHash == [hex |-> <<0, 0>>, pre |-> <<>>]

StrCode(s) ==
    CASE s = "m1" -> 1
      [] s = "peer" -> 2
      [] s = "Genesis Block" -> 3
      [] s = "Evil" -> 4
      [] s = "A" -> 7
      [] s = "B" -> 8
      [] OTHER -> 0

TxCode(tx) ==
    Cardinality(tx.keys) + 3 * tx.voter_id + 5 * StrCode(tx.vote)
    + 7 * StrCode(tx.candidate)

RECURSIVE TxsCode(_)
TxsCode(txs) ==
    IF txs = <<>> THEN 0 ELSE TxCode(Head(txs)) + 2 * TxsCode(Tail(txs))

\* block data: a dictionary, keys the keys it holds
GenesisData ==
    [keys |-> {"message"}, message |-> "Genesis Block", transactions |-> <<>>,
     miner |-> "", timestamp |-> 0]

\* {"transactions": ..., "miner": ...} of mine_pending_data
TxData(txs, addr) ==
    [keys |-> {"transactions", "miner"}, message |-> "", transactions |-> txs,
     miner |-> addr, timestamp |-> 0]

\* json.dumps of the data, reduced to a number that feeds the digest
DataCode(data) ==
    Cardinality(data.keys) + StrCode(data.message) + TxsCode(data.transactions)
    + StrCode(data.miner) + data.timestamp

HexValue(h) == 4 * h.hex[1] + h.hex[2]

\* calculate_hash that leaves the data out of the digest
calculate_hash_WithoutData(b) ==
    LET pre == <<b.index, b.timestamp, b.previous_hash, b.nonce>>
        v == (17 * b.index + 29 * b.timestamp
              + 11 * HexValue(b.previous_hash) + 37 * b.nonce) % HashSpace
    IN [hex |-> <<v \div 4, v % 4>>, pre |-> pre]

calculate_hash(b) ==
    LET pre == <<b.index, b.timestamp, b.data, b.previous_hash, b.nonce>>
        v == (17 * b.index + 29 * b.timestamp + 53 * DataCode(b.data)
              + 11 * HexValue(b.previous_hash) + 37 * b.nonce) % HashSpace
    IN [hex |-> <<v \div 4, v % 4>>, pre |-> pre]

\* Block.__init__: nonce 0 and hash computed
Block(index, timestamp, data, previous_hash) ==
    LET b == [index |-> index, timestamp |-> timestamp, data |-> data,
              previous_hash |-> previous_hash, nonce |-> 0, hash |-> ZeroHash]
    IN [b EXCEPT !.hash = calculate_hash(b)]

\* hash[:d] and '0' * d
HashPrefix(h, d) == SubSeq(h.hex, 1, Min(d, Len(h.hex)))
Zeros(d) == [i \in 1..d |-> 0]

\* mine_block that increments the nonce before it looks at the hash
RECURSIVE mine_block_SkipsFirst(_, _)
mine_block_SkipsFirst(b, d) ==
    LET n == [b EXCEPT !.nonce = @ + 1]
        h == [n EXCEPT !.hash = calculate_hash(n)]
    IN IF HashPrefix(h.hash, d) = Zeros(d)
       THEN h
       ELSE mine_block_SkipsFirst(h, d)

RECURSIVE mine_block(_, _)
mine_block(b, d) ==
    IF HashPrefix(b.hash, d) = Zeros(d)
    THEN b
    ELSE LET n == [b EXCEPT !.nonce = @ + 1]
         IN mine_block([n EXCEPT !.hash = calculate_hash(n)], d)

is_valid(b) == b.hash = calculate_hash(b)

\* ------------------------------------------------------------- Blockchain
\* Blockchain.__init__ and _create_genesis_block
create_genesis_block(d, now) ==
    mine_block(Block(0, now, GenesisData, ZeroHash), d)

latest_block == chain[Len(chain)]

\* is_valid_block without the check of the stored hash
is_valid_block_NoHashCheck(block, previous_block) ==
    IF block.index # previous_block.index + 1 THEN FALSE
    ELSE IF block.previous_hash # previous_block.hash THEN FALSE
    ELSE IF HashPrefix(block.hash, difficulty) # Zeros(difficulty) THEN FALSE
    ELSE TRUE

\* is_valid_block that accepts a hash one '0' short of the difficulty
is_valid_block_WeakDifficulty(block, previous_block) ==
    IF block.index # previous_block.index + 1 THEN FALSE
    ELSE IF block.previous_hash # previous_block.hash THEN FALSE
    ELSE IF block.hash # calculate_hash(block) THEN FALSE
    ELSE IF HashPrefix(block.hash, difficulty - 1) # Zeros(difficulty - 1)
    THEN FALSE
    ELSE TRUE

is_valid_block(block, previous_block) ==
    IF block.index # previous_block.index + 1 THEN FALSE
    ELSE IF block.previous_hash # previous_block.hash THEN FALSE
    ELSE IF block.hash # calculate_hash(block) THEN FALSE
    ELSE IF HashPrefix(block.hash, difficulty) # Zeros(difficulty) THEN FALSE
    ELSE TRUE

\* the loop of is_valid_chain, from position i (1-based) on
RECURSIVE ValidFrom(_, _)
ValidFrom(c, i) ==
    IF i > Len(c) THEN TRUE
    ELSE IF ~is_valid_block(c[i], c[i - 1]) THEN FALSE
    ELSE ValidFrom(c, i + 1)

\* is_valid_chain whose loop skips the second block
is_valid_chain_SkipsFirstPair(c) ==
    IF Len(c) = 0 THEN FALSE ELSE ValidFrom(c, 3)

is_valid_chain(c) ==
    IF Len(c) = 0 THEN FALSE ELSE ValidFrom(c, 2)

\* Results of the operations: the chain and queue they leave, the value
\* they return (ok, reason, block: empty or the one block returned), the
\* blocks handed to the "block mined" hook, and whether they ended in a fault.
Result(c, q, ok, reason, block, hook) ==
    [chain |-> c, pending_data |-> q, ok |-> ok, reason |-> reason,
     block |-> block, hook |-> hook, fault |-> FALSE]

Fault(c, q, name) ==
    [chain |-> c, pending_data |-> q, ok |-> FALSE, reason |-> name,
     block |-> <<>>, hook |-> <<>>, fault |-> TRUE]

add_data(data) ==
    Result(chain, Append(pending_data, data), TRUE, "", <<>>, <<>>)

\* mine_pending_data that leaves the queue as it is
mine_pending_data_KeepsQueue(miner_address, now) ==
    IF pending_data = <<>>
    THEN Result(chain, pending_data, FALSE, "", <<>>, <<>>)
    ELSE LET new_block == mine_block(
                 Block(Len(chain), now, TxData(pending_data, miner_address),
                       latest_block.hash), difficulty)
         IN Result(Append(chain, new_block), pending_data, TRUE, "",
                   <<new_block>>, <<>>)

mine_pending_data(miner_address, now) ==
    IF pending_data = <<>>
    THEN Result(chain, pending_data, FALSE, "", <<>>, <<>>)
    ELSE LET new_block == mine_block(
                 Block(Len(chain), now, TxData(pending_data, miner_address),
                       latest_block.hash), difficulty)
         IN Result(Append(chain, new_block), <<>>, TRUE, "", <<new_block>>, <<>>)

\* add_block that appends the block it rejects
add_block_AppendsRejected(block) ==
    Result(Append(chain, block), pending_data,
           is_valid_block(block, latest_block), "", <<>>, <<>>)

add_block(block) ==
    IF ~is_valid_block(block, latest_block)
    THEN Result(chain, pending_data, FALSE, "", <<>>, <<>>)
    ELSE Result(Append(chain, block), pending_data, TRUE, "", <<>>, <<>>)

\* replace_chain that takes any valid chain, a shorter one too
replace_chain_TakesShorter(new_chain) ==
    IF ~is_valid_chain(new_chain)
    THEN Result(chain, pending_data, FALSE, "", <<>>, <<>>)
    ELSE Result(new_chain, pending_data, TRUE, "", <<>>, <<>>)

\* replace_chain that takes a chain of equal length
replace_chain_TakesEqualLength(new_chain) ==
    IF Len(new_chain) < Len(chain)
    THEN Result(chain, pending_data, FALSE, "", <<>>, <<>>)
    ELSE IF ~is_valid_chain(new_chain)
    THEN Result(chain, pending_data, FALSE, "", <<>>, <<>>)
    ELSE Result(new_chain, pending_data, TRUE, "", <<>>, <<>>)

replace_chain(new_chain) ==
    IF Len(new_chain) <= Len(chain)
    THEN Result(chain, pending_data, FALSE, "", <<>>, <<>>)
    ELSE IF ~is_valid_chain(new_chain)
    THEN Result(chain, pending_data, FALSE, "", <<>>, <<>>)
    ELSE Result(new_chain, pending_data, TRUE, "", <<>>, <<>>)

\* chain[i] of a Python list: a negative i counts from the end
InRange(c, i) == -Len(c) <= i /\ i < Len(c)
PyAt(c, i) == IF i >= 0 THEN c[i + 1] ELSE c[Len(c) + i + 1]

\* fork_detection_and_resolution that appends the next block unchecked
fork_detection_and_resolution_AppendsUnchecked(received_block) ==
    LET idx == received_block.index
        No(reason) == Result(chain, pending_data, FALSE, reason, <<>>, <<>>)
    IN IF idx < Len(chain)
       THEN IF ~InRange(chain, idx)
            THEN Fault(chain, pending_data, "IndexError")
            ELSE IF PyAt(chain, idx).hash = received_block.hash
            THEN No("Block already exists in our chain")
            ELSE IF idx = 0
            THEN No("Genesis block conflict, keeping our chain")
            ELSE IF ~InRange(chain, idx - 1)
            THEN Fault(chain, pending_data, "IndexError")
            ELSE IF received_block.previous_hash = PyAt(chain, idx - 1).hash
            THEN No("Fork detected, need full chain comparison")
            ELSE No("Unknown state in fork resolution")
       ELSE IF idx = Len(chain)
       THEN Result(Append(chain, received_block), pending_data, TRUE,
                   "Block added to chain", <<>>, <<>>)
       ELSE No("Need to sync blocks")

\* fork_detection_and_resolution that looks for the link one block too far
fork_detection_and_resolution_LinkOffByOne(received_block) ==
    LET idx == received_block.index
        No(reason) == Result(chain, pending_data, FALSE, reason, <<>>, <<>>)
    IN IF idx < Len(chain)
       THEN IF ~InRange(chain, idx)
            THEN Fault(chain, pending_data, "IndexError")
            ELSE IF PyAt(chain, idx).hash = received_block.hash
            THEN No("Block already exists in our chain")
            ELSE IF idx = 0
            THEN No("Genesis block conflict, keeping our chain")
            ELSE IF ~InRange(chain, idx - 1)
            THEN Fault(chain, pending_data, "IndexError")
            ELSE IF received_block.previous_hash = PyAt(chain, idx).hash
            THEN No("Fork detected, need full chain comparison")
            ELSE No("Unknown state in fork resolution")
       ELSE IF idx = Len(chain)
       THEN IF is_valid_block(received_block, latest_block)
            THEN Result(Append(chain, received_block), pending_data, TRUE,
                        "Block added to chain", <<>>, <<>>)
            ELSE No("Invalid next block")
       ELSE No("Need to sync blocks")

\* fork_detection_and_resolution that looks the block up in the chain when its
\* index is the length of the chain too
fork_detection_and_resolution_IndexesNextBlock(received_block) ==
    LET idx == received_block.index
        No(reason) == Result(chain, pending_data, FALSE, reason, <<>>, <<>>)
    IN IF idx <= Len(chain)
       THEN IF ~InRange(chain, idx)
            THEN Fault(chain, pending_data, "IndexError")
            ELSE IF PyAt(chain, idx).hash = received_block.hash
            THEN No("Block already exists in our chain")
            ELSE IF idx = 0
            THEN No("Genesis block conflict, keeping our chain")
            ELSE IF ~InRange(chain, idx - 1)
            THEN Fault(chain, pending_data, "IndexError")
            ELSE IF received_block.previous_hash = PyAt(chain, idx - 1).hash
            THEN No("Fork detected, need full chain comparison")
            ELSE No("Unknown state in fork resolution")
       ELSE No("Need to sync blocks")

fork_detection_and_resolution(received_block) ==
    LET idx == received_block.index
        No(reason) == Result(chain, pending_data, FALSE, reason, <<>>, <<>>)
    IN IF idx < Len(chain)
       THEN IF ~InRange(chain, idx)
            THEN Fault(chain, pending_data, "IndexError")
            ELSE IF PyAt(chain, idx).hash = received_block.hash
            THEN No("Block already exists in our chain")
            ELSE IF idx = 0
            THEN No("Genesis block conflict, keeping our chain")
            ELSE IF ~InRange(chain, idx - 1)
            THEN Fault(chain, pending_data, "IndexError")
            ELSE IF received_block.previous_hash = PyAt(chain, idx - 1).hash
            THEN No("Fork detected, need full chain comparison")
            ELSE No("Unknown state in fork resolution")
       ELSE IF idx = Len(chain)
       THEN IF is_valid_block(received_block, latest_block)
            THEN Result(Append(chain, received_block), pending_data, TRUE,
                        "Block added to chain", <<>>, <<>>)
            ELSE No("Invalid next block")
       ELSE No("Need to sync blocks")

\* ------------------------------------------------------------ ForkHandler
\* detect_fork that takes an invalid next block for a plain rejection
detect_fork_PlainRejection(received_block) ==
    LET idx == received_block.index
        Answer(fork, message, sync) ==
            [fork_detected |-> fork, message |-> message, needs_sync |-> sync,
             fault |-> FALSE]
    IN IF idx > Len(chain)
       THEN Answer(TRUE, <<"Peer is ahead by", idx - Len(chain), "blocks">>,
                   TRUE)
       ELSE IF idx < Len(chain)
       THEN IF ~InRange(chain, idx)
            THEN [fork_detected |-> FALSE, message |-> <<"IndexError">>,
                  needs_sync |-> FALSE, fault |-> TRUE]
            ELSE IF PyAt(chain, idx).hash = received_block.hash
            THEN Answer(FALSE, <<"Block already in chain">>, FALSE)
            ELSE Answer(TRUE, <<"Fork detected at index", idx>>, TRUE)
       ELSE IF received_block.previous_hash = latest_block.hash
       THEN IF is_valid_block(received_block, latest_block)
            THEN Answer(FALSE, <<"Valid next block">>, FALSE)
            ELSE Answer(FALSE, <<"Invalid next block">>, FALSE)
       ELSE Answer(TRUE, <<"Fork detected: different previous hash">>, TRUE)

\* detect_fork: (fork detected, message, full sync needed)
detect_fork(received_block) ==
    LET idx == received_block.index
        Answer(fork, message, sync) ==
            [fork_detected |-> fork, message |-> message, needs_sync |-> sync,
             fault |-> FALSE]
    IN IF idx > Len(chain)
       THEN Answer(TRUE, <<"Peer is ahead by", idx - Len(chain), "blocks">>,
                   TRUE)
       ELSE IF idx < Len(chain)
       THEN IF ~InRange(chain, idx)
            THEN [fork_detected |-> FALSE, message |-> <<"IndexError">>,
                  needs_sync |-> FALSE, fault |-> TRUE]
            ELSE IF PyAt(chain, idx).hash = received_block.hash
            THEN Answer(FALSE, <<"Block already in chain">>, FALSE)
            ELSE Answer(TRUE, <<"Fork detected at index", idx>>, TRUE)
       ELSE IF received_block.previous_hash = latest_block.hash
       THEN IF is_valid_block(received_block, latest_block)
            THEN Answer(FALSE, <<"Valid next block">>, FALSE)
            ELSE Answer(TRUE, <<"Invalid next block, possible fork">>, TRUE)
       ELSE Answer(TRUE, <<"Fork detected: different previous hash">>, TRUE)

\* Block.to_dict: the dictionary of the six fields
to_dict(b) ==
    [index |-> b.index, timestamp |-> b.timestamp, data |-> b.data,
     previous_hash |-> b.previous_hash, nonce |-> b.nonce, hash |-> b.hash]

\* the keys from_dict reads, and the entries of a dictionary that hold None
BlockKeys == {"index", "timestamp", "data", "previous_hash", "nonce", "hash"}
Nulls(block_dict) ==
    IF "nulls" \in DOMAIN block_dict THEN block_dict.nulls ELSE {}

\* block_dict[key] of a key the dictionary does not hold
KeyError == [fault |-> "KeyError"]

\* the defaults of Block.__init__ for None: time.time() (no earlier than any
\* timestamp) and the list []
time_time == CHOOSE t \in Timestamps : \A u \in Timestamps : u <= t
EmptyList ==
    [keys |-> {}, message |-> "", transactions |-> <<>>, miner |-> "",
     timestamp |-> 0]

\* from_dict that leaves the computed hash in place
from_dict_RecomputesHash(block_dict) ==
    IF ~(BlockKeys \subseteq DOMAIN block_dict) THEN KeyError
    ELSE LET null == Nulls(block_dict)
             b == [index |-> block_dict.index,
                   timestamp |-> IF "timestamp" \in null THEN time_time
                                 ELSE block_dict.timestamp,
                   data |-> IF "data" \in null THEN EmptyList
                            ELSE block_dict.data,
                   previous_hash |-> IF "previous_hash" \in null THEN ZeroHash
                                     ELSE block_dict.previous_hash,
                   nonce |-> block_dict.nonce, hash |-> ZeroHash]
         IN [b EXCEPT !.hash = calculate_hash(b)]

\* Block.from_dict: a Block built from five entries by Block.__init__, which
\* puts its defaults in the place of None, its hash then set to the sixth
from_dict(block_dict) ==
    IF ~(BlockKeys \subseteq DOMAIN block_dict) THEN KeyError
    ELSE LET null == Nulls(block_dict)
             b == [index |-> block_dict.index,
                   timestamp |-> IF "timestamp" \in null THEN time_time
                                 ELSE block_dict.timestamp,
                   data |-> IF "data" \in null THEN EmptyList
                            ELSE block_dict.data,
                   previous_hash |-> IF "previous_hash" \in null THEN ZeroHash
                                     ELSE block_dict.previous_hash,
                   nonce |-> block_dict.nonce, hash |-> ZeroHash]
             block == [b EXCEPT !.hash = calculate_hash(b)]
         IN [block EXCEPT !.hash = block_dict.hash]

\* Blockchain.to_dict
chain_to_dict(c) == [i \in 1..Len(c) |-> to_dict(c[i])]

\* resolve_fork, lines 113-130: the check of one candidate chain
valid_chain(candidate_chain) ==
    IF candidate_chain[1].index # 0
       \/ candidate_chain[1].previous_hash # ZeroHash
    THEN FALSE
    ELSE ValidFrom(candidate_chain, 2)

\* the loop of resolve_fork that keeps the first valid candidate it finds
RECURSIVE ScanChains_KeepsFirst(_, _, _)
ScanChains_KeepsFirst(chains, longest_valid_chain, longest_chain_length) ==
    IF chains = <<>> \/ longest_valid_chain # <<>> THEN longest_valid_chain
    ELSE LET chain_data == Head(chains)
             candidate_chain ==
                 [i \in 1..Len(chain_data) |-> from_dict(chain_data[i])]
         IN IF Len(chain_data) <= longest_chain_length
            THEN ScanChains_KeepsFirst(Tail(chains), longest_valid_chain,
                                       longest_chain_length)
            ELSE IF valid_chain(candidate_chain)
            THEN ScanChains_KeepsFirst(Tail(chains), candidate_chain,
                                       Len(candidate_chain))
            ELSE ScanChains_KeepsFirst(Tail(chains), longest_valid_chain,
                                       longest_chain_length)

\* the loop of resolve_fork that raises the bar for every longer candidate,
\* valid or not
RECURSIVE ScanChains_InvalidRaisesBar(_, _, _)
ScanChains_InvalidRaisesBar(chains, longest_valid_chain, longest_chain_length) ==
    IF chains = <<>> THEN longest_valid_chain
    ELSE LET chain_data == Head(chains)
             candidate_chain ==
                 [i \in 1..Len(chain_data) |-> from_dict(chain_data[i])]
         IN IF Len(chain_data) <= longest_chain_length
            THEN ScanChains_InvalidRaisesBar(Tail(chains), longest_valid_chain,
                                             longest_chain_length)
            ELSE IF valid_chain(candidate_chain)
            THEN ScanChains_InvalidRaisesBar(Tail(chains), candidate_chain,
                                             Len(candidate_chain))
            ELSE ScanChains_InvalidRaisesBar(Tail(chains), longest_valid_chain,
                                             Len(candidate_chain))

\* the loop of resolve_fork that also takes a candidate of the length reached
RECURSIVE ScanChains_TakesEqualLength(_, _, _)
ScanChains_TakesEqualLength(chains, longest_valid_chain, longest_chain_length) ==
    IF chains = <<>> THEN longest_valid_chain
    ELSE LET chain_data == Head(chains)
             candidate_chain ==
                 [i \in 1..Len(chain_data) |-> from_dict(chain_data[i])]
         IN IF Len(chain_data) < longest_chain_length \/ chain_data = <<>>
            THEN ScanChains_TakesEqualLength(Tail(chains), longest_valid_chain,
                                             longest_chain_length)
            ELSE IF valid_chain(candidate_chain)
            THEN ScanChains_TakesEqualLength(Tail(chains), candidate_chain,
                                             Len(candidate_chain))
            ELSE ScanChains_TakesEqualLength(Tail(chains), longest_valid_chain,
                                             longest_chain_length)

\* the loop of resolve_fork over the competing chains; None is <<>>
RECURSIVE ScanChains(_, _, _)
ScanChains(chains, longest_valid_chain, longest_chain_length) ==
    IF chains = <<>> THEN longest_valid_chain
    ELSE LET chain_data == Head(chains)
             candidate_chain ==
                 [i \in 1..Len(chain_data) |-> from_dict(chain_data[i])]
         IN IF Len(chain_data) <= longest_chain_length
            THEN ScanChains(Tail(chains), longest_valid_chain,
                            longest_chain_length)
            ELSE IF valid_chain(candidate_chain)
                    /\ Len(candidate_chain) > longest_chain_length
            THEN ScanChains(Tail(chains), candidate_chain,
                            Len(candidate_chain))
            ELSE ScanChains(Tail(chains), longest_valid_chain,
                            longest_chain_length)

resolve_fork(competing_chains) ==
    LET our_chain_dict == chain_to_dict(chain)
        longest_valid_chain ==
            ScanChains(competing_chains, <<>>, Len(our_chain_dict))
    IN IF longest_valid_chain # <<>>
       THEN Result(longest_valid_chain, pending_data, TRUE, "", <<>>, <<>>)
       ELSE Result(chain, pending_data, FALSE, "", <<>>, <<>>)


\* the loop of resolve_conflicts over the chains handed in: replace_chain of
\* each candidate, c the local chain so far
RECURSIVE ReplaceFrom(_, _, _)
ReplaceFrom(chains, c, replaced) ==
    IF chains = <<>> THEN Result(c, pending_data, replaced, "", <<>>, <<>>)
    ELSE LET chain_data == Head(chains)
             candidate_chain ==
                 [i \in 1..Len(chain_data) |-> from_dict(chain_data[i])]
         IN IF Len(candidate_chain) <= Len(c)
            THEN ReplaceFrom(Tail(chains), c, replaced)
            ELSE IF ~is_valid_chain(candidate_chain)
            THEN ReplaceFrom(Tail(chains), c, replaced)
            ELSE ReplaceFrom(Tail(chains), candidate_chain, TRUE)

resolve_conflicts(chains) == ReplaceFrom(chains, chain, FALSE)

\* handle_received_block that appends the next block unchecked
handle_received_block_AppendsUnchecked(received_block) ==
    LET idx == received_block.index
        Answered(ok, reason) == Result(chain, pending_data, ok, reason, <<>>, <<>>)
    IN IF idx = Len(chain)
       THEN Result(Append(chain, received_block), pending_data, TRUE,
                   "Block added to chain", <<>>, <<>>)
       ELSE IF idx < Len(chain)
       THEN IF ~InRange(chain, idx)
            THEN Fault(chain, pending_data, "IndexError")
            ELSE IF PyAt(chain, idx).hash = received_block.hash
            THEN Answered(TRUE, "Block already in chain")
            ELSE Answered(FALSE, "Fork detected, need full chain sync")
       ELSE Answered(FALSE, "Peer chain is ahead, need to sync")

\* handle_received_block
handle_received_block(received_block) ==
    LET idx == received_block.index
        Answered(ok, reason) == Result(chain, pending_data, ok, reason, <<>>, <<>>)
    IN IF idx = Len(chain)
       THEN IF is_valid_block(received_block, latest_block)
            THEN Result(Append(chain, received_block), pending_data, TRUE,
                        "Block added to chain", <<>>, <<>>)
            ELSE Answered(FALSE, "Invalid block")
       ELSE IF idx < Len(chain)
       THEN IF ~InRange(chain, idx)
            THEN Fault(chain, pending_data, "IndexError")
            ELSE IF PyAt(chain, idx).hash = received_block.hash
            THEN Answered(TRUE, "Block already in chain")
            ELSE Answered(FALSE, "Fork detected, need full chain sync")
       ELSE Answered(FALSE, "Peer chain is ahead, need to sync")

\* for i in range(min_length) of find_common_ancestor, from position i on,
\* which returns the mismatch itself
RECURSIVE CompareFrom_ReturnsMismatch(_, _, _)
CompareFrom_ReturnsMismatch(competing_chain, i, min_length) ==
    IF i >= min_length THEN min_length - 1
    ELSE IF chain[i + 1].hash # competing_chain[i + 1].hash
    THEN IF i = 0 THEN -1 ELSE i
    ELSE CompareFrom_ReturnsMismatch(competing_chain, i + 1, min_length)

\* for i in range(min_length) of find_common_ancestor, from position i on
RECURSIVE CompareFrom(_, _, _)
CompareFrom(competing_chain, i, min_length) ==
    IF i >= min_length THEN min_length - 1
    ELSE IF chain[i + 1].hash # competing_chain[i + 1].hash
    THEN IF i = 0 THEN -1 ELSE i - 1
    ELSE CompareFrom(competing_chain, i + 1, min_length)

find_common_ancestor(competing_chain) ==
    CompareFrom(competing_chain, 0, Min(Len(chain), Len(competing_chain)))

\* get_blocks_after_fork
get_blocks_after_fork(fork_point) ==
    IF fork_point < 0 \/ fork_point >= Len(chain) - 1 THEN <<>>
    ELSE SubSeq(chain, fork_point + 2, Len(chain))

\* for char in block.hash that counts every '0' of the hash
RECURSIVE leading_zeros_NoBreak(_)
leading_zeros_NoBreak(hex) ==
    IF hex = <<>> THEN 0
    ELSE (IF Head(hex) = 0 THEN 1 ELSE 0) + leading_zeros_NoBreak(Tail(hex))

\* for char in block.hash: counts '0' characters up to the first other one
RECURSIVE leading_zeros(_)
leading_zeros(hex) ==
    IF hex = <<>> THEN 0
    ELSE IF Head(hex) = 0 THEN 1 + leading_zeros(Tail(hex))
    ELSE 0

\* _calculate_chain_work
RECURSIVE calculate_chain_work(_)
calculate_chain_work(chain_segment) ==
    IF chain_segment = <<>> THEN 0
    ELSE 16 ^ leading_zeros(Head(chain_segment).hash.hex)
         + calculate_chain_work(Tail(chain_segment))

\* c[:n] and c[n:] of Python, for n >= 0
Upto(c, n) == SubSeq(c, 1, Min(n, Len(c)))
After(c, n) == SubSeq(c, n + 1, Len(c))

\* the loop of sync_missing_blocks over range(sync_from_index,
\* len(competing_chain)), from i on, c the local chain so far
RECURSIVE SyncFrom(_, _, _, _)
SyncFrom(competing_chain, sync_from_index, i, c) ==
    IF i >= Len(competing_chain)
    THEN Result(c, pending_data, TRUE,
                <<"Synced blocks", Len(competing_chain) - sync_from_index>>,
                <<>>, <<>>)
    ELSE IF i = 0 \/ is_valid_block(competing_chain[i + 1], competing_chain[i])
    THEN SyncFrom(competing_chain, sync_from_index, i + 1,
                  Append(c, competing_chain[i + 1]))
    ELSE Result(Upto(c, sync_from_index), pending_data, FALSE,
                <<"Invalid block during sync at index", i>>, <<>>, <<>>)

\* sync_missing_blocks that replaces the local suffix on equal work too
sync_missing_blocks_TakesEqualWork(competing_chain, sync_from_index) ==
    LET No(reason) == Result(chain, pending_data, FALSE, reason, <<>>, <<>>)
        common_ancestor ==
            find_common_ancestor(Upto(competing_chain, sync_from_index + 1))
        our_chain_work ==
            calculate_chain_work(After(chain, common_ancestor + 1))
        competing_chain_work ==
            calculate_chain_work(After(competing_chain, common_ancestor + 1))
    IN IF sync_from_index < 0 \/ sync_from_index >= Len(competing_chain)
       THEN No(<<"Invalid sync index">>)
       ELSE IF sync_from_index >= Len(chain)
       THEN SyncFrom(competing_chain, sync_from_index, sync_from_index, chain)
       ELSE IF common_ancestor = -1
       THEN No(<<"No common ancestor found">>)
       ELSE IF competing_chain_work >= our_chain_work
       THEN Result(Upto(chain, common_ancestor + 1)
                   \o After(competing_chain, common_ancestor + 1),
                   pending_data, TRUE,
                   <<"Chain replaced after fork at index", common_ancestor>>,
                   <<>>, <<>>)
       ELSE No(<<"Our chain has more work">>)

sync_missing_blocks(competing_chain, sync_from_index) ==
    LET No(reason) == Result(chain, pending_data, FALSE, reason, <<>>, <<>>)
        common_ancestor ==
            find_common_ancestor(Upto(competing_chain, sync_from_index + 1))
        our_chain_work ==
            calculate_chain_work(After(chain, common_ancestor + 1))
        competing_chain_work ==
            calculate_chain_work(After(competing_chain, common_ancestor + 1))
    IN IF sync_from_index < 0 \/ sync_from_index >= Len(competing_chain)
       THEN No(<<"Invalid sync index">>)
       ELSE IF sync_from_index >= Len(chain)
       THEN SyncFrom(competing_chain, sync_from_index, sync_from_index, chain)
       ELSE IF common_ancestor = -1
       THEN No(<<"No common ancestor found">>)
       ELSE IF competing_chain_work > our_chain_work
       THEN Result(Upto(chain, common_ancestor + 1)
                   \o After(competing_chain, common_ancestor + 1),
                   pending_data, TRUE,
                   <<"Chain replaced after fork at index", common_ancestor>>,
                   <<>>, <<>>)
       ELSE No(<<"Our chain has more work">>)

\* the transactions of a chain that carry 'voter_id' and 'vote', in the order
\* of the two nested loops, each with the index of its block
IsVote(tx) == "voter_id" \in tx.keys /\ "vote" \in tx.keys

RECURSIVE VotesOfTxs(_, _)
VotesOfTxs(txs, block_index) ==
    IF txs = <<>> THEN <<>>
    ELSE (IF IsVote(Head(txs))
          THEN <<[voter_id |-> Head(txs).voter_id, vote |-> Head(txs).vote,
                  block_index |-> block_index]>>
          ELSE <<>>)
         \o VotesOfTxs(Tail(txs), block_index)

RECURSIVE VotesOf(_)
VotesOf(c) ==
    IF c = <<>> THEN <<>>
    ELSE (IF "transactions" \in Head(c).data.keys
          THEN VotesOfTxs(Head(c).data.transactions, Head(c).index)
          ELSE <<>>)
         \o VotesOf(Tail(c))

\* our_transactions: the first vote of each voter of the local chain
our_transactions(votes) ==
    {v \in {votes[i] : i \in 1..Len(votes)} :
        \E i \in 1..Len(votes) :
            /\ votes[i] = v
            /\ \A j \in 1..(i - 1) : votes[j].voter_id # v.voter_id}

\* the second loop of detect_double_spending over the votes of the competing
\* chain
RECURSIVE double_spends(_, _)
double_spends(votes, ours) ==
    IF votes = <<>> THEN <<>>
    ELSE LET tx == Head(votes)
             hit == {o \in ours : o.voter_id = tx.voter_id /\ o.vote # tx.vote}
         IN (IF hit = {} THEN <<>>
             ELSE LET our_vote == CHOOSE o \in hit : TRUE
                  IN <<[voter_id |-> tx.voter_id,
                        our_chain_vote |-> our_vote.vote,
                        our_chain_block |-> our_vote.block_index,
                        competing_chain_vote |-> tx.vote,
                        competing_chain_block |-> tx.block_index]>>)
            \o double_spends(Tail(votes), ours)

detect_double_spending(competing_chain) ==
    double_spends(VotesOf(competing_chain), our_transactions(VotesOf(chain)))

\* ------------------------------------------------------------------ Miner
\* Miner._create_block: the data carries a timestamp of its own
MinerData(txs, addr, now) ==
    [keys |-> {"transactions", "miner", "timestamp"}, message |-> "",
     transactions |-> txs, miner |-> addr, timestamp |-> now]

\* _create_block that takes the index of the latest block
create_block_IndexOfLatest(data_now, now) ==
    Block(latest_block.index, now,
          MinerData(pending_data, MinerAddress, data_now), latest_block.hash)

create_block(data_now, now) ==
    Block(Len(chain), now, MinerData(pending_data, MinerAddress, data_now),
          latest_block.hash)

\* mine_single_block without the check for an empty queue
mine_single_block_MinesEmpty(data_now, now) ==
    LET block == mine_block(create_block(data_now, now), miner_difficulty)
    IN Result(Append(chain, block), <<>>, TRUE, "", <<block>>,
              IF on_block_mined THEN <<block>> ELSE <<>>)

mine_single_block(data_now, now) ==
    IF pending_data = <<>>
    THEN Result(chain, pending_data, FALSE, "", <<>>, <<>>)
    ELSE LET block == mine_block(create_block(data_now, now), miner_difficulty)
         IN Result(Append(chain, block), <<>>, TRUE, "", <<block>>,
                   IF on_block_mined THEN <<block>> ELSE <<>>)

\* --------------------------------------------------------------- Election
\* the candidates of the election and the choices a voter may name
Candidates == {"A", "B"}
Choices == Candidates \cup {"C"}
VoterIds == 1..MaxPayload

\* election_data of _register_election and end_data of end_election
RegistrationTx ==
    [keys |-> {"type", "election_id", "title", "candidates", "start_time"},
     voter_id |-> 0, vote |-> "", candidate |-> ""]
EndTx ==
    [keys |-> {"type", "election_id", "end_time"},
     voter_id |-> 0, vote |-> "", candidate |-> ""]

\* tx.get('type'): each builder of transactions has its own keys
TxType(tx) ==
    IF "type" \notin tx.keys THEN ""
    ELSE IF "candidate" \in tx.keys THEN "vote"
    ELSE IF "title" \in tx.keys THEN "election_registration"
    ELSE "election_end"

\* _has_voter_cast_vote
has_voter_cast_vote(voter_id) ==
    \E i \in 1..Len(chain) :
        /\ "transactions" \in chain[i].data.keys
        /\ \E k \in 1..Len(chain[i].data.transactions) :
              LET tx == chain[i].data.transactions[k]
              IN /\ TxType(tx) = "vote"
                 /\ "voter_id" \in tx.keys
                 /\ tx.voter_id = voter_id

\* add_data(data) followed by mine_single_block() of the miner of the
\* election, on the same chain
add_and_mine(data, data_now, now) ==
    LET block == mine_block(
                     Block(Len(chain), now,
                           MinerData(Append(pending_data, data), MinerAddress,
                                     data_now),
                           latest_block.hash), miner_difficulty)
    IN Result(Append(chain, block), <<>>, TRUE, "", <<block>>,
              IF on_block_mined THEN <<block>> ELSE <<>>)

\* Election.cast_vote without the look at the chain for an earlier vote
election_cast_vote_NoVoterCheck(voter_id, candidate, data_now, now) ==
    LET No(reason) == Result(chain, pending_data, FALSE, reason, <<>>, <<>>)
        mined == add_and_mine(cast_vote(voter_id, candidate), data_now, now)
    IN IF ~is_active THEN No("Election is not active")
       ELSE IF candidate \notin Candidates THEN No("Invalid candidate")
       ELSE [mined EXCEPT !.reason = "Vote recorded successfully"]

\* Election.cast_vote
election_cast_vote(voter_id, candidate, data_now, now) ==
    LET No(reason) == Result(chain, pending_data, FALSE, reason, <<>>, <<>>)
        mined == add_and_mine(cast_vote(voter_id, candidate), data_now, now)
    IN IF ~is_active THEN No("Election is not active")
       ELSE IF candidate \notin Candidates THEN No("Invalid candidate")
       ELSE IF has_voter_cast_vote(voter_id)
       THEN No("Voter has already cast a vote")
       ELSE [mined EXCEPT !.reason = "Vote recorded successfully"]

\* ------------------------------------------------------------------ shell
\* the first transaction holding the key gets the value
RECURSIVE TamperTxs(_, _, _)
TamperTxs(txs, key, value) ==
    IF txs = <<>> THEN <<>>
    ELSE IF key \in Head(txs).keys
    THEN <<[Head(txs) EXCEPT ![key] = value]>> \o Tail(txs)
    ELSE <<Head(txs)>> \o TamperTxs(Tail(txs), key, value)

TamperData(data, key, value) ==
    IF key \in data.keys
    THEN [data EXCEPT ![key] = value]
    ELSE IF "transactions" \in data.keys
    THEN [data EXCEPT !.transactions = TamperTxs(@, key, value)]
    ELSE data

\* do_tamper_block: the data of the stored block changes in place, its
\* nonce and hash stay; ok tells whether the data changed, block is the
\* block as it was before
tamper_block(block_index, key, value) ==
    IF block_index < 0 \/ block_index >= Len(chain)
    THEN Result(chain, pending_data, FALSE, "Invalid block index", <<>>, <<>>)
    ELSE LET block == chain[block_index + 1]
             data == TamperData(block.data, key, value)
         IN Result([chain EXCEPT ![block_index + 1].data = data], pending_data,
                   data # block.data, "", <<block>>, <<>>)

\* ------------------------------------------------ blocks and chains received
\* A block a peer built on prev: its index off by off, linked to prev or
\* not, mined to difficulty work, its stored hash forged or not.
PeerBlock(prev, off, linked, work, forged) ==
    LET b == mine_block(
                 Block(prev.index + 1 + off, 2,
                       TxData(<<PlainTx(0, "B")>>, PeerAddress),
                       IF linked THEN prev.hash ELSE ZeroHash), work)
    IN IF forged
       THEN [b EXCEPT !.hash = [hex |-> b.hash.hex, pre |-> <<"forged">>]]
       ELSE b

\* the first block of a peer's own chain, with index g
PeerGenesis(g) == mine_block(Block(g, 2, GenesisData, ZeroHash), difficulty)

\* every combination of the four conditions of is_valid_block, on prev
PeerBlocksOn(prev) ==
    {PeerBlock(prev, off, linked, work, forged) :
        off \in {0, 1}, linked \in BOOLEAN, work \in {0, difficulty},
        forged \in BOOLEAN}

\* blocks that compete with a block the chain already holds
PeerForksOn(prev) ==
    {PeerBlock(prev, 0, linked, difficulty, FALSE) : linked \in BOOLEAN}

ReceivedBlocks ==
    {chain[i] : i \in 1..Len(chain)} \cup {PeerGenesis(0)}
    \cup PeerBlocksOn(latest_block)
    \cup UNION {PeerForksOn(chain[i]) : i \in 1..(Len(chain) - 1)}

\* one more block on a candidate chain: a valid one, or one with one defect
ChainFlavors ==
    {<<0, TRUE, difficulty, FALSE>>, <<1, TRUE, difficulty, FALSE>>,
     <<0, FALSE, difficulty, FALSE>>, <<0, TRUE, 0, FALSE>>,
     <<0, TRUE, difficulty, TRUE>>}

Extensions(c, flavors) ==
    IF c = <<>> \/ Len(c) >= MaxChain THEN {}
    ELSE {Append(c, PeerBlock(c[Len(c)], f[1], f[2], f[3], f[4])) :
             f \in flavors}

CandidateChains ==
    LET starts == {SubSeq(chain, 1, k) : k \in {0, Len(chain) - 1, Len(chain)}}
                  \cup {<<PeerGenesis(g)>> : g \in {0, 1}}
        once == UNION {Extensions(c, ChainFlavors) : c \in starts}
        twice == UNION {Extensions(c, {<<0, TRUE, difficulty, FALSE>>,
                                       <<0, TRUE, difficulty, TRUE>>}) :
                           c \in once}
    IN starts \cup once \cup twice

\* the valid block another peer built on prev at the same time
RivalBlock(prev) ==
    mine_block(Block(prev.index + 1, 2,
                     TxData(<<PlainTx(0, "A")>>, PeerAddress), prev.hash),
               difficulty)

\* a chain whose first block has another previous hash than '0' * 64
BadSentinel(c) ==
    [c EXCEPT ![1].previous_hash = [hex |-> <<0, 0>>, pre |-> <<"forged">>]]

\* chains that compete with the local chain in resolve_fork, built on the
\* chain and on its parent: the chain, a valid, an unlinked and a rival
\* block on it, a valid block on its parent, and a second block on the
\* valid and on the unlinked one
NearChains ==
    LET valid == <<0, TRUE, difficulty, FALSE>>
        unlinked == <<0, FALSE, difficulty, FALSE>>
        parent == SubSeq(chain, 1, Len(chain) - 1)
        on_chain == Extensions(chain, {valid, unlinked})
        rival == {Append(c, RivalBlock(c[Len(c)])) :
                     c \in {x \in {chain} : Len(x) < MaxChain}}
        on_parent == Extensions(parent, {valid})
        twice == UNION {Extensions(c, {valid}) : c \in on_chain}
    IN {chain} \cup on_chain \cup rival \cup on_parent \cup twice

\* the near chains, chains whose first block is no genesis block, and chains
\* whose first block has another previous hash
CompetingChains ==
    LET valid == <<0, TRUE, difficulty, FALSE>>
        foreign == Extensions(<<PeerGenesis(1)>>, {valid})
    IN NearChains \cup foreign
       \cup UNION {Extensions(c, {valid}) : c \in foreign}
       \cup {BadSentinel(c) :
                c \in {x \in NearChains : Len(x) > Len(chain) /\ valid_chain(x)}}

\* the lists handed to resolve_fork: no chain, one chain, two near chains
CompetingLists ==
    {<<>>} \cup {<<chain_to_dict(c)>> : c \in CompetingChains}
    \cup {<<chain_to_dict(c1), chain_to_dict(c2)>> :
             c1 \in NearChains, c2 \in NearChains}

\* one more block on a chain a peer holds, however long the chain
Grow(c, flavors) ==
    IF c = <<>> THEN {}
    ELSE {Append(c, PeerBlock(c[Len(c)], f[1], f[2], f[3], f[4])) :
             f \in flavors}

\* chains handed to sync_missing_blocks and find_common_ancestor: the chain
\* and its parent, what peers built on them (valid blocks, blocks of more
\* and of less work, a block that is not linked), and a chain with another
\* first block
SyncChains ==
    LET valid == <<0, TRUE, difficulty, FALSE>>
        unlinked == <<0, FALSE, difficulty, FALSE>>
        heavy == <<0, TRUE, 2, FALSE>>
        light == <<0, TRUE, 0, FALSE>>
        parent == SubSeq(chain, 1, Len(chain) - 1)
        ahead1 == Grow(chain, {valid, unlinked})
        ahead2 == UNION {Grow(c, {valid}) : c \in Grow(chain, {valid})}
        fork1 == Grow(parent, {valid, heavy, light})
        fork2 == UNION {Grow(c, {valid}) : c \in Grow(parent, {valid})}
        behind == Grow(SubSeq(chain, 1, Len(chain) - 2), {heavy})
        foreign == {<<PeerGenesis(1)>>} \cup Grow(<<PeerGenesis(1)>>, {valid})
    IN {<<>>, chain, parent} \cup ahead1 \cup ahead2
       \cup fork1 \cup fork2 \cup behind \cup foreign

\* a peer two blocks ahead whose next block is not linked
FarAhead ==
    UNION {Grow(c, {<<0, FALSE, difficulty, FALSE>>}) :
              c \in {x \in SyncChains :
                        /\ Len(x) = Len(chain) + 2
                        /\ SubSeq(x, 1, Len(chain)) = chain}}

\* the calls of sync_missing_blocks: a chain and the index to sync from
SyncCalls ==
    (SyncChains \X (-1..(Len(chain) + 1)))
    \cup (FarAhead \X {Len(chain) + 1})

\* a block a peer built on prev that holds the transactions txs
VoteBlock(prev, txs) ==
    mine_block(Block(prev.index + 1, 2, TxData(txs, PeerAddress), prev.hash),
               difficulty)

\* the votes a competing chain may hold for the voters of the local chain
CompetingVotes ==
    {<<PlainTx(2, "A")>>, <<PlainTx(2, "B")>>, <<PlainTx(4, "A")>>,
     <<cast_vote(2, "A")>>, <<cast_vote(1, "B")>>,
     <<PlainTx(2, "B"), PlainTx(2, "A")>>,
     <<PlainTx(2, "A"), PlainTx(2, "A")>>, <<PlainTx(2, "A"), PlainTx(2, "B")>>}

\* chains handed to detect_double_spending
VoteChains ==
    {chain, <<chain[1]>>}
    \cup {<<chain[1], VoteBlock(chain[1], txs)>> : txs \in CompetingVotes}
    \cup {<<chain[1], VoteBlock(chain[1], <<PlainTx(2, "B")>>),
            VoteBlock(VoteBlock(chain[1], <<PlainTx(2, "B")>>), txs)>> :
             txs \in {<<PlainTx(2, "A")>>, <<PlainTx(2, "B")>>}}

ChainBlocks == {chain[i] : i \in 1..Len(chain)}

\* a stored block with one of its six fields changed and nothing re-mined
FieldTampers(b) ==
    {[b EXCEPT !.index = @ + 1],
     [b EXCEPT !.timestamp = @ + 1],
     [b EXCEPT !.data = [@ EXCEPT !.message = "Evil"]],
     [b EXCEPT !.previous_hash = [hex |-> @.hex, pre |-> <<"forged">>]],
     [b EXCEPT !.nonce = @ + 1],
     [b EXCEPT !.hash = [hex |-> @.hex, pre |-> <<"forged">>]]}

\* the blocks whose records are loaded: the blocks of the chain, each with
\* one field changed and nothing re-mined, and the blocks of peers
RecordBlocks ==
    ChainBlocks \cup UNION {FieldTampers(b) : b \in ChainBlocks}
    \cup PeerBlocksOn(latest_block)

\* a record without the entry key, and one whose entry key holds None
Without(block_dict, key) ==
    [k \in DOMAIN block_dict \ {key} |-> block_dict[k]]
WithNull(block_dict, key) ==
    [k \in DOMAIN block_dict \cup {"nulls"} |->
        IF k = "nulls" THEN {key} ELSE block_dict[k]]

\* the fields Block.__init__ has a default for
DefaultedKeys == {"timestamp", "data", "previous_hash"}

\* records with a required field absent or None
BrokenRecords ==
    {Without(to_dict(b), key) : b \in ChainBlocks, key \in BlockKeys}
    \cup {WithNull(to_dict(b), key) : b \in ChainBlocks, key \in DefaultedKeys}

Records == {to_dict(b) : b \in RecordBlocks} \cup BrokenRecords

\* ---------------------------------------------------------------- actions
NoCall == [op |-> "init", ok |-> FALSE, reason |-> "", block |-> <<>>,
           hook |-> <<>>, fault |-> FALSE]

Init ==
    /\ difficulty \in DifficultyValues
    /\ \E now \in Timestamps : chain = <<create_genesis_block(difficulty, now)>>
    /\ pending_data = <<>>
    /\ miner_difficulty = difficulty
    /\ on_block_mined = FALSE
    /\ mining_thread = "none"
    /\ mined_block = <<>>
    /\ stop_mining = FALSE
    /\ hook_calls = <<>>
    /\ is_active = TRUE
    /\ last = NoCall

\* the places of _mining_loop between the test of the queue and the append:
\* a block of the thread is on its way to the chain
InFlight ==
    {"peek", "create_index", "create_data", "create_prev", "mine_while",
     "mine_test", "mine_nonce", "mined", "interrupted", "append"}

\* room kept in the bounded chain for the block of the mining thread
Reserved == IF mining_thread \in InFlight THEN 1 ELSE 0

\* the call op ends with result r
Apply(op, r) ==
    /\ Len(r.chain) + Reserved <= MaxChain
    /\ chain' = r.chain
    /\ pending_data' = r.pending_data
    /\ hook_calls' = hook_calls \o r.hook
    /\ last' = [op |-> op, ok |-> r.ok, reason |-> r.reason, block |-> r.block,
                hook |-> r.hook, fault |-> r.fault]
    /\ UNCHANGED <<is_active, difficulty, miner_difficulty, on_block_mined, mining_thread,
                   mined_block, stop_mining>>

\* time.time(): the clock does not run backwards
Clock == {now \in Timestamps : now >= latest_block.timestamp}

\* payloads enqueued or mined so far
RECURSIVE TxIds(_)
TxIds(txs) ==
    IF txs = <<>> THEN {} ELSE {Head(txs).voter_id} \cup TxIds(Tail(txs))

UsedIds ==
    TxIds(pending_data)
    \cup UNION {TxIds(chain[i].data.transactions) : i \in 1..Len(chain)}

NextId == 1 + CHOOSE m \in UsedIds \cup {0} : \A k \in UsedIds : k <= m

AddData ==
    \E data \in {Payload(NextId)} :
        NextId <= MaxPayload /\ Apply("add_data", add_data(data))

MinePending ==
    \E now \in Clock :
        Apply("mine_pending_data", mine_pending_data(MinerAddress, now))

AddBlock == \E block \in ReceivedBlocks : Apply("add_block", add_block(block))

ReplaceChain ==
    \E new_chain \in CandidateChains :
        Apply("replace_chain", replace_chain(new_chain))

ForkDetectionAndResolution ==
    \E received_block \in ReceivedBlocks :
        Apply("fork_detection_and_resolution",
              fork_detection_and_resolution(received_block))

IsValidBlock ==
    \E block \in ReceivedBlocks, i \in 1..Len(chain) :
        Apply("is_valid_block",
              Result(chain, pending_data, is_valid_block(block, chain[i]), "",
                     <<>>, <<>>))

IsValidChain ==
    \E c \in CandidateChains :
        Apply("is_valid_chain",
              Result(chain, pending_data, is_valid_chain(c), "", <<>>, <<>>))

MineSingleBlock ==
    \E data_now \in Clock, now \in Clock :
        data_now <= now /\ Apply("mine_single_block", mine_single_block(data_now, now))

TamperBlock ==
    \E block_index \in 0..MaxChain, key \in TamperKeys, value \in TamperValues :
        Apply("tamper_block", tamper_block(block_index, key, value))

Next ==
    \/ AddData
    \/ MinePending
    \/ AddBlock
    \/ ReplaceChain
    \/ ForkDetectionAndResolution

\* the Chain operations
Spec == Init /\ [][Next]_vars

DetectFork ==
    \E received_block \in ReceivedBlocks :
        LET d == detect_fork(received_block)
        IN /\ last' = [op |-> "detect_fork", ok |-> d.fork_detected,
                       reason |-> d.message, block |-> <<>>, hook |-> <<>>,
                       fault |-> d.fault, needs_sync |-> d.needs_sync]
           /\ UNCHANGED <<is_active, chain, pending_data, difficulty, miner_difficulty,
                          on_block_mined, mining_thread, mined_block,
                          stop_mining, hook_calls>>

NextForkHandler ==
    \/ AddData
    \/ MinePending
    \/ AddBlock
    \/ DetectFork

\* a ForkHandler on a chain grown by mining and by blocks received
SpecForkHandler == Init /\ [][NextForkHandler]_vars

ResolveFork ==
    \E competing_chains \in CompetingLists :
        Apply("resolve_fork", resolve_fork(competing_chains))

NextResolve ==
    \/ AddData
    \/ MinePending
    \/ ResolveFork

\* a ForkHandler that resolves forks of a chain grown by mining
SpecResolve == Init /\ [][NextResolve]_vars

\* a call that reads the chain and returns value
Answer(op, value) ==
    /\ last' = [op |-> op, ok |-> TRUE, reason |-> "", block |-> <<>>,
                hook |-> <<>>, fault |-> FALSE, value |-> value]
    /\ UNCHANGED <<is_active, chain, pending_data, difficulty, miner_difficulty,
                   on_block_mined, mining_thread, mined_block, stop_mining,
                   hook_calls>>

FindCommonAncestor ==
    \E competing_chain \in SyncChains :
        Answer("find_common_ancestor", find_common_ancestor(competing_chain))

CalculateChainWork ==
    \E competing_chain \in SyncChains :
        Answer("_calculate_chain_work", calculate_chain_work(competing_chain))

SyncMissingBlocks ==
    \E call \in SyncCalls :
        Apply("sync_missing_blocks", sync_missing_blocks(call[1], call[2]))

DetectDoubleSpending ==
    \E competing_chain \in VoteChains :
        Answer("detect_double_spending",
               detect_double_spending(competing_chain))

NextSync ==
    \/ AddData
    \/ MinePending
    \/ SyncMissingBlocks

\* a node of difficulty 1: the hashes of the model have two characters, so at
\* difficulty 2 every mined block has the same work
InitSync == Init /\ difficulty = 1

SpecSync == InitSync /\ [][NextSync]_vars

NextCompare ==
    \/ AddData
    \/ MinePending
    \/ FindCommonAncestor
    \/ CalculateChainWork
    \/ DetectDoubleSpending

SpecCompare == Init /\ [][NextCompare]_vars

FromDict ==
    \E block_dict \in Records : Answer("from_dict", from_dict(block_dict))

NextRecord ==
    \/ AddData
    \/ MinePending
    \/ FromDict

\* chains produced by mining, and records loaded
SpecRecord == Init /\ [][NextRecord]_vars

\* Election.__init__ on a new chain: the registration is mined
InitElection ==
    /\ difficulty \in DifficultyValues
    /\ miner_difficulty = difficulty
    /\ \E t0 \in Timestamps, t1 \in Timestamps :
          LET genesis == create_genesis_block(difficulty, t0)
          IN /\ t0 <= t1
             /\ chain = <<genesis,
                          mine_block(Block(1, t1,
                                           MinerData(<<RegistrationTx>>,
                                                     MinerAddress, t1),
                                           genesis.hash), miner_difficulty)>>
    /\ pending_data = <<>>
    /\ on_block_mined \in BOOLEAN
    /\ mining_thread = "none"
    /\ mined_block = <<>>
    /\ stop_mining = FALSE
    /\ hook_calls = <<>>
    /\ is_active = TRUE
    /\ last = NoCall

ElectionCastVote ==
    \E voter_id \in VoterIds, candidate \in Choices,
       data_now \in Clock, now \in Clock :
        /\ data_now <= now
        /\ Apply("cast_vote",
                 election_cast_vote(voter_id, candidate, data_now, now))

\* end_election: the election is closed and its end is mined
EndElection ==
    \E data_now \in Clock, now \in Clock :
        LET r == add_and_mine(EndTx, data_now, now)
        IN /\ data_now <= now
           /\ Len(r.chain) <= MaxChain
           /\ is_active' = FALSE
           /\ chain' = r.chain
           /\ pending_data' = r.pending_data
           /\ hook_calls' = hook_calls \o r.hook
           /\ last' = [op |-> "end_election", ok |-> TRUE, reason |-> "",
                       block |-> r.block, hook |-> r.hook, fault |-> FALSE]
           /\ UNCHANGED <<difficulty, miner_difficulty, on_block_mined,
                          mining_thread, mined_block, stop_mining>>

NextElection ==
    \/ ElectionCastVote
    \/ EndElection

SpecElection == InitElection /\ [][NextElection]_vars

HandleReceivedBlock ==
    \E received_block \in ReceivedBlocks :
        Apply("handle_received_block", handle_received_block(received_block))

NextReceive ==
    \/ AddData
    \/ MinePending
    \/ ForkDetectionAndResolution
    \/ HandleReceivedBlock
    \/ DetectFork

\* a node that hands the blocks it receives to the Chain or to the ForkHandler
SpecReceive == Init /\ [][NextReceive]_vars

NextValidate ==
    \/ AddData
    \/ MinePending
    \/ AddBlock
    \/ IsValidBlock
    \/ IsValidChain

\* chains grown by mining and by blocks received, and the two validators
SpecValidate == Init /\ [][NextValidate]_vars

NextMining ==
    \/ AddData
    \/ MinePending

\* chains produced by construction and mining alone
SpecMining == Init /\ [][NextMining]_vars

NextTamper ==
    \/ AddData
    \/ MinePending
    \/ TamperBlock

\* mined chains whose stored blocks the shell tampers with
SpecTamper == Init /\ [][NextTamper]_vars

\* a Miner on the chain: its difficulty may override the chain's, the
\* "block mined" hook is configured or not
InitMiner ==
    /\ difficulty \in DifficultyValues
    /\ \E now \in Timestamps : chain = <<create_genesis_block(difficulty, now)>>
    /\ pending_data = <<>>
    /\ miner_difficulty \in DifficultyValues
    /\ on_block_mined \in BOOLEAN
    /\ mining_thread = "none"
    /\ mined_block = <<>>
    /\ stop_mining = FALSE
    /\ hook_calls = <<>>
    /\ is_active = TRUE
    /\ last = NoCall

NextMiner ==
    \/ AddData
    \/ MinePending
    \/ MineSingleBlock

SpecMiner == InitMiner /\ [][NextMiner]_vars

\* --------------------------------------------- Miner: the background loop
\* A step of the thread: it moves to place `to`, with chain c, queue q, block
\* b and hook calls h.
Thread(to, c, q, b, h) ==
    /\ mining_thread' = to
    /\ chain' = c
    /\ pending_data' = q
    /\ mined_block' = b
    /\ hook_calls' = h
    /\ UNCHANGED <<is_active, difficulty, miner_difficulty, on_block_mined, stop_mining,
                   last>>

Goto(to) == Thread(to, chain, pending_data, mined_block, hook_calls)

\* start_mining: a warning when the thread is alive, else the flag is cleared
\* and the thread started
StartMining ==
    IF mining_thread # "none"
    THEN UNCHANGED vars
    ELSE /\ stop_mining' = FALSE
         /\ mining_thread' = "while"
         /\ UNCHANGED <<is_active, chain, pending_data, difficulty, miner_difficulty,
                        on_block_mined, mined_block, hook_calls, last>>

\* stop_mining_process: sets the flag when the thread is alive; join returns
\* when the thread has ended or after a second
StopMiningProcess ==
    IF mining_thread = "none"
    THEN UNCHANGED vars
    ELSE /\ stop_mining' = TRUE
         /\ UNCHANGED <<is_active, chain, pending_data, difficulty, miner_difficulty,
                        on_block_mined, mining_thread, mined_block, hook_calls,
                        last>>

\* while not self.stop_mining.is_set()
LoopWhile ==
    /\ mining_thread = "while"
    /\ IF stop_mining THEN Goto("none")
       ELSE Len(chain) < MaxChain /\ Goto("peek")

\* if not self.blockchain.pending_data
LoopPeek ==
    /\ mining_thread = "peek"
    /\ IF pending_data = <<>> THEN Goto("sleep") ELSE Goto("create_index")

\* time.sleep(1); continue
LoopSleep == mining_thread = "sleep" /\ Goto("while")

\* _create_block reads the chain length, then copies the queue, then reads
\* the hash of the latest block, and then builds the Block
CreateIndex ==
    /\ mining_thread = "create_index"
    /\ Thread("create_data", chain, pending_data, [index |-> Len(chain)],
              hook_calls)

CreateData ==
    /\ mining_thread = "create_data"
    /\ \E data_now \in Clock :
          Thread("create_prev", chain, pending_data,
                 [index |-> mined_block.index,
                  data |-> MinerData(pending_data, MinerAddress, data_now)],
                 hook_calls)

CreatePrev ==
    /\ mining_thread = "create_prev"
    /\ \E now \in Clock :
          /\ mined_block.data.timestamp <= now
          /\ Thread("mine_while", chain, pending_data,
                    Block(mined_block.index, now, mined_block.data,
                          latest_block.hash),
                    hook_calls)

\* _mine_block whose loop does not look at the flag
MineWhile_NoStopCheck ==
    /\ mining_thread = "mine_while"
    /\ Goto("mine_test")

\* _mine_block: while not self.stop_mining.is_set()
MineWhile ==
    /\ mining_thread = "mine_while"
    /\ IF stop_mining THEN Goto("interrupted") ELSE Goto("mine_test")

\* if block.hash[:self.difficulty] == target: return block
MineTest ==
    /\ mining_thread = "mine_test"
    /\ IF HashPrefix(mined_block.hash, miner_difficulty) = Zeros(miner_difficulty)
       THEN Goto("mined")
       ELSE Goto("mine_nonce")

\* block.nonce += 1; block.hash = block.calculate_hash()
MineNonce ==
    /\ mining_thread = "mine_nonce"
    /\ LET n == [mined_block EXCEPT !.nonce = @ + 1]
       IN Thread("mine_while", chain, pending_data,
                 [n EXCEPT !.hash = calculate_hash(n)], hook_calls)

\* LoopCheck that appends a mined block though the flag is set
LoopCheck_IgnoresStop ==
    /\ mining_thread \in {"mined", "interrupted"}
    /\ IF mining_thread = "mined"
       THEN Goto("append")
       ELSE Thread("while", chain, pending_data, <<>>, hook_calls)

\* if mined_block and not self.stop_mining.is_set()
LoopCheck ==
    /\ mining_thread \in {"mined", "interrupted"}
    /\ IF mining_thread = "mined" /\ ~stop_mining
       THEN Goto("append")
       ELSE Thread("while", chain, pending_data, <<>>, hook_calls)

\* self.blockchain.chain.append(mined_block)
LoopAppend ==
    /\ mining_thread = "append"
    /\ Thread("clear", Append(chain, mined_block), pending_data, mined_block,
              hook_calls)

\* self.blockchain.pending_data = []
LoopClear ==
    /\ mining_thread = "clear"
    /\ Thread("hook", chain, <<>>, mined_block, hook_calls)

\* the end of a round without the call of the callback
LoopHook_NoCall ==
    /\ mining_thread = "hook"
    /\ Thread("while", chain, pending_data, <<>>, hook_calls)

\* if self.on_block_mined: self.on_block_mined(mined_block)
LoopHook ==
    /\ mining_thread = "hook"
    /\ Thread("while", chain, pending_data, <<>>,
              IF on_block_mined THEN Append(hook_calls, mined_block)
              ELSE hook_calls)

\* the steps of the thread of _mining_loop
MiningLoop ==
    \/ LoopWhile
    \/ LoopPeek
    \/ LoopSleep
    \/ CreateIndex
    \/ CreateData
    \/ CreatePrev
    \/ MineWhile
    \/ MineTest
    \/ MineNonce
    \/ LoopCheck
    \/ LoopAppend
    \/ LoopClear
    \/ LoopHook

NextLoop ==
    \/ AddData
    \/ MineSingleBlock
    \/ StartMining
    \/ MiningLoop

NextCancel ==
    \/ AddData
    \/ StartMining
    \/ StopMiningProcess
    \/ MiningLoop

\* a Miner whose loop runs in a thread of its own
InitLoop ==
    /\ difficulty \in DifficultyValues
    /\ \E now \in Timestamps : chain = <<create_genesis_block(difficulty, now)>>
    /\ pending_data = <<>>
    /\ miner_difficulty = difficulty
    /\ on_block_mined \in BOOLEAN
    /\ mining_thread = "none"
    /\ mined_block = <<>>
    /\ stop_mining = FALSE
    /\ hook_calls = <<>>
    /\ is_active = TRUE
    /\ last = NoCall

\* the thread beside callers that enqueue and mine on the same chain
SpecLoop == InitLoop /\ [][NextLoop]_vars

\* the thread beside callers that enqueue, and start and stop the mining
SpecCancel == InitLoop /\ [][NextCancel]_vars

\* the thread of a Miner without a hook on a node of difficulty 1
SpecLedger == InitSync /\ [][NextCancel]_vars

\* the same, the thread being scheduled again and again
SpecCancelFair == SpecCancel /\ WF_vars(MiningLoop)

\* ----------------------------------------------------------------- claims
\* the number of leading '0' characters of a hash
LeadingZeroCount(h) ==
    Cardinality({n \in 1..Len(h.hex) : \A m \in 1..n : h.hex[m] = 0})

\* the rule of section 4.2 for a block and its predecessor
FourConditions(candidate, previous) ==
    /\ candidate.index = previous.index + 1
    /\ candidate.previous_hash = previous.hash
    /\ candidate.hash = calculate_hash(candidate)
    /\ LeadingZeroCount(candidate.hash) >= difficulty

\* C1: after any sequence of Chain operations every block after the first
\* links to the stored hash of its predecessor, stores the hash of its own
\* contents, and has at least `difficulty` leading '0' characters.
C1_LinkedHashedMined ==
    \A i \in 2..Len(chain) :
        /\ chain[i].previous_hash = chain[i - 1].hash
        /\ chain[i].hash = calculate_hash(chain[i])
        /\ LeadingZeroCount(chain[i].hash) >= difficulty

C1_Witness ==
    /\ Len(chain) = MaxChain
    /\ last.op = "replace_chain" /\ last.ok
    /\ chain[2].data.miner = MinerAddress
    /\ chain[3].data.miner = PeerAddress

\* C2: after any sequence of Chain operations the chain is non-empty and the
\* block at every position i has index i.
C2_IndexIsPosition ==
    /\ Len(chain) >= 1
    /\ \A i \in 1..Len(chain) : chain[i].index = i - 1

\* C3: replace_chain takes the candidate and returns true exactly when the
\* candidate is longer than the chain and valid pair by pair; otherwise it
\* returns false and the chain is as before; the queue is never changed.
C3_ReplaceChain ==
    \A c \in CandidateChains :
        LET r == replace_chain(c)
            accept == /\ Len(c) > Len(chain)
                      /\ Len(c) > 0
                      /\ \A i \in 2..Len(c) : FourConditions(c[i], c[i - 1])
        IN /\ r.ok = accept
           /\ r.chain = IF accept THEN c ELSE chain
           /\ r.pending_data = pending_data
           /\ ~r.fault

C3_Witness ==
    /\ last.op = "replace_chain" /\ last.ok
    /\ pending_data # <<>>
    /\ \E c \in CandidateChains : Len(c) = Len(chain) /\ is_valid_chain(c)
                                   /\ c # chain

\* C4: add_block appends the block and returns true exactly when the block
\* satisfies the rule against the latest block; otherwise it returns false
\* and leaves the chain; the queue is never changed.
C4_AddBlock ==
    \A b \in ReceivedBlocks :
        LET r == add_block(b)
            accept == FourConditions(b, latest_block)
        IN /\ r.ok = accept
           /\ r.chain = IF accept THEN Append(chain, b) ELSE chain
           /\ r.pending_data = pending_data
           /\ ~r.fault

C4_Witness ==
    /\ last.op = "add_block" /\ last.ok
    /\ pending_data # <<>>
    /\ latest_block.data.miner = PeerAddress
    /\ \E b \in ReceivedBlocks : ~add_block(b).ok

\* C5: is_valid_block is true exactly when the four conditions hold.
C5_IsValidBlock ==
    \A b \in ReceivedBlocks, p \in ChainBlocks :
        is_valid_block(b, p) <=> FourConditions(b, p)

C5_Witness ==
    /\ last.op = "is_valid_block" /\ last.ok
    /\ difficulty = 2
    /\ \E b \in ReceivedBlocks :
          /\ b.index = latest_block.index + 1
          /\ b.previous_hash = latest_block.hash
          /\ is_valid(b)
          /\ LeadingZeroCount(b.hash) = 1

\* C6: is_valid_chain is true exactly of the non-empty sequences in which
\* is_valid_block holds of every adjacent pair; the first block is not
\* checked.
C6_IsValidChain ==
    \A c \in CandidateChains :
        is_valid_chain(c) <=>
            /\ Len(c) > 0
            /\ \A i \in 2..Len(c) : is_valid_block(c[i], c[i - 1])

C6_Witness ==
    /\ last.op = "is_valid_chain" /\ last.ok
    /\ \E c \in CandidateChains :
          Len(c) = MaxChain /\ c[1].index # 0 /\ is_valid_chain(c)
    /\ \E c \in CandidateChains :
          Len(c) = MaxChain /\ is_valid_block(c[3], c[2]) /\ ~is_valid_chain(c)

\* C7: a chain produced by construction and mining is valid, and with any one
\* field of any block but the last changed, the first block included, it is
\* not.
C7_TamperOfAnyFieldDetected ==
    /\ is_valid_chain(chain)
    /\ \A i \in 1..(Len(chain) - 1) :
          \A t \in FieldTampers(chain[i]) :
              ~is_valid_chain([chain EXCEPT ![i] = t])

\* C8: is_valid is true exactly of a block whose stored hash is the hash of
\* its other five fields; once the shell has changed the data of a stored
\* block after the first, is_valid and is_valid_block are false of it though
\* it still links to its predecessor.
C8_TamperedDataDetected ==
    /\ \A b \in ChainBlocks \cup ReceivedBlocks :
          is_valid(b) <=> b.hash = calculate_hash(b)
    /\ (last.op = "tamper_block" /\ last.ok /\ last.block[1].index > 0) =>
          LET i == last.block[1].index + 1
          IN /\ chain[i].data # last.block[1].data
             /\ ~is_valid(chain[i])
             /\ ~is_valid_block(chain[i], chain[i - 1])
             /\ chain[i].previous_hash = chain[i - 1].hash

C8_Witness ==
    /\ last.op = "tamper_block" /\ last.ok
    /\ last.block[1].index = 1
    /\ is_valid(last.block[1])
    /\ is_valid_block(last.block[1], chain[1])
    /\ Len(chain) = MaxChain

\* C9: on an empty queue mine_pending_data and mine_single_block return no
\* block, raise nothing, call no hook and leave chain and queue as they are.
C9_EmptyQueueNoOp ==
    pending_data = <<>> =>
        \A t1 \in Clock, t2 \in Clock :
            /\ mine_pending_data(MinerAddress, t1)
                 = Result(chain, <<>>, FALSE, "", <<>>, <<>>)
            /\ mine_single_block(t1, t2)
                 = Result(chain, <<>>, FALSE, "", <<>>, <<>>)

C9_Witness ==
    /\ last.op = "mine_single_block" /\ ~last.ok /\ last.hook = <<>>
    /\ on_block_mined
    /\ pending_data = <<>>
    /\ Len(chain) = 2

\* C10: on a non-empty queue mine_pending_data appends exactly one block and
\* returns it: index the chain length before, previous hash the hash of the
\* block that was latest, data the queue in enqueue order and the miner
\* address, a hash with at least `difficulty` leading '0' characters; the
\* queue is empty afterwards.
C10_MinePending ==
    pending_data # <<>> =>
        \A addr \in {MinerAddress, PeerAddress}, now \in Clock :
            LET r == mine_pending_data(addr, now)
                b == r.block[1]
            IN /\ r.ok /\ ~r.fault /\ Len(r.block) = 1
               /\ r.chain = Append(chain, b)
               /\ b.index = Len(chain)
               /\ b.previous_hash = latest_block.hash
               /\ b.data.keys = {"transactions", "miner"}
               /\ b.data.miner = addr
               /\ b.data.transactions = pending_data
               /\ \A i \in 1..Len(pending_data) :
                     \A j \in 1..Len(pending_data) :
                         i < j => b.data.transactions[i].voter_id
                                    < b.data.transactions[j].voter_id
               /\ LeadingZeroCount(b.hash) >= difficulty
               /\ r.pending_data = <<>>

C10_Witness ==
    /\ last.op = "mine_pending_data" /\ last.ok
    /\ Len(last.block[1].data.transactions) >= 2
    /\ last.block[1] = latest_block
    /\ Len(chain) = MaxChain
    /\ difficulty = 2

\* the entries of a sequence
SeqRange(s) == {s[i] : i \in 1..Len(s)}

\* the entries a step takes from the queue
Dropped == SeqRange(pending_data) \ SeqRange(pending_data')

\* C11: the queue loses entries only in a mining operation that has appended
\* a block carrying those entries (the call that appends it, or the round
\* of the loop that has just appended it), and the queue grows only by one
\* entry at its end, with the chain left as it is.
C11_QueueLossOnlyWithBlock ==
    [][/\ Dropped # {} =>
             \E b \in SeqRange(chain') :
                 /\ \/ chain' = Append(chain, b)
                    \/ mining_thread = "clear" /\ b = mined_block
                 /\ Dropped \subseteq SeqRange(b.data.transactions)
       /\ Len(pending_data') > Len(pending_data) =>
             /\ chain' = chain
             /\ \E e \in SeqRange(pending_data') :
                    pending_data' = Append(pending_data, e)]_vars

\* C12: with add_data running beside a mining operation no payload is lost:
\* a payload that is in the queue or in a block of the chain before a step
\* is in the queue or in a block of the chain after it.
C12_NoPayloadLost == [][UsedIds \subseteq UsedIds']_vars

\* C13: every block the loop appends has, when it is appended, the chain
\* length as its index and the hash of the latest block as its previous hash.
C13_LoopAppendsOnTip ==
    mining_thread = "append" =>
        /\ mined_block.index = Len(chain)
        /\ mined_block.previous_hash = latest_block.hash

\* C14: fork_detection_and_resolution changes the chain and reports true
\* exactly when the index of the received block is the chain length and the
\* block satisfies the rule against the latest block, and then appends that
\* block; for any other block (index greater or less than the length, or
\* invalid) it reports false and leaves the chain; the queue is never
\* changed.
C14_ForkDetectionAppendsOnlyValidNext ==
    \A b \in ReceivedBlocks :
        LET r == fork_detection_and_resolution(b)
            accept == /\ b.index = Len(chain)
                      /\ FourConditions(b, latest_block)
        IN /\ r.ok = accept
           /\ r.chain = IF accept THEN Append(chain, b) ELSE chain
           /\ r.pending_data = pending_data
           /\ ~r.fault

C14_Witness ==
    /\ last.op = "fork_detection_and_resolution" /\ last.ok
    /\ latest_block.data.miner = PeerAddress
    /\ pending_data # <<>>
    /\ \E b \in ReceivedBlocks : b.index > Len(chain)
    /\ \E b \in ReceivedBlocks :
          b.index = Len(chain) /\ ~is_valid_block(b, latest_block)
    /\ \E b \in ReceivedBlocks :
          b.index < Len(chain) /\ b \notin ChainBlocks

\* C15: for a received block of index below the chain length,
\* fork_detection_and_resolution compares with the local block at that index:
\* equal hash, already present; unequal hash at index 0, genesis conflict;
\* unequal hash, index above 0 and previous hash equal to the hash of the
\* local block before, fork detected; for an index above the chain length
\* it reports that a sync is needed.
C15_ForkDetectionReasons ==
    \A b \in ReceivedBlocks :
        LET r == fork_detection_and_resolution(b)
            L == Len(chain)
        IN /\ (b.index < L /\ chain[b.index + 1].hash = b.hash) =>
                 r.reason = "Block already exists in our chain"
           /\ (b.index < L /\ chain[b.index + 1].hash # b.hash
                  /\ b.index = 0) =>
                 r.reason = "Genesis block conflict, keeping our chain"
           /\ (b.index < L /\ chain[b.index + 1].hash # b.hash
                  /\ b.index > 0 /\ b.previous_hash = chain[b.index].hash) =>
                 r.reason = "Fork detected, need full chain comparison"
           /\ b.index > L => r.reason = "Need to sync blocks"

C15_Witness ==
    /\ last.op = "fork_detection_and_resolution"
    /\ last.reason = "Fork detected, need full chain comparison"
    /\ Len(chain) = MaxChain
    /\ \E b \in ReceivedBlocks :
          fork_detection_and_resolution(b).reason
              = "Genesis block conflict, keeping our chain"
    /\ \E b \in ReceivedBlocks :
          fork_detection_and_resolution(b).reason
              = "Block already exists in our chain"
    /\ \E b \in ReceivedBlocks :
          fork_detection_and_resolution(b).reason = "Need to sync blocks"

\* C16 as stated: from the same chain, queue and miner address, with the
\* Miner's difficulty the chain's, mine_single_block and mine_pending_data
\* leave the same chain length and an empty queue and append a block of the
\* same index, previous hash and data {transactions: queue, miner: address}.
C16_SameBlockAsMinePending ==
    (pending_data # <<>> /\ miner_difficulty = difficulty) =>
        \A data_now \in Clock, now \in Clock :
            LET p == mine_pending_data(MinerAddress, now)
                m == mine_single_block(data_now, now)
            IN /\ Len(m.chain) = Len(p.chain)
               /\ m.pending_data = <<>> /\ p.pending_data = <<>>
               /\ m.block[1].index = p.block[1].index
               /\ m.block[1].previous_hash = p.block[1].previous_hash
               /\ m.block[1].data = p.block[1].data
               /\ p.block[1].data = TxData(pending_data, MinerAddress)

\* C16 amended: ... of the same index and previous hash, whose data holds the
\* same transactions (the queue) and the same miner; the data of the
\* Miner's block holds one key more, "timestamp", that the data of
\* mine_pending_data does not have. Both blocks are appended at the end and
\* satisfy the rule against the block that was latest.
C16_SameBlockButTimestamp ==
    (pending_data # <<>> /\ miner_difficulty = difficulty) =>
        \A data_now \in Clock, now \in Clock :
            LET p == mine_pending_data(MinerAddress, now)
                m == mine_single_block(data_now, now)
                pb == p.block[1]
                mb == m.block[1]
            IN /\ Len(m.chain) = Len(p.chain)
               /\ m.chain = Append(chain, mb) /\ p.chain = Append(chain, pb)
               /\ m.pending_data = <<>> /\ p.pending_data = <<>>
               /\ mb.index = pb.index /\ pb.index = Len(chain)
               /\ mb.previous_hash = pb.previous_hash
               /\ pb.previous_hash = latest_block.hash
               /\ mb.data.transactions = pending_data
               /\ pb.data.transactions = pending_data
               /\ mb.data.miner = pb.data.miner /\ pb.data.miner = MinerAddress
               /\ pb.data.keys = {"transactions", "miner"}
               /\ mb.data.keys = pb.data.keys \cup {"timestamp"}
               /\ mb.data.timestamp = data_now
               /\ FourConditions(mb, latest_block)
               /\ FourConditions(pb, latest_block)

C16_Witness ==
    /\ last.op = "mine_single_block" /\ last.ok
    /\ miner_difficulty = difficulty
    /\ last.block[1] = latest_block
    /\ "timestamp" \in latest_block.data.keys
    /\ Len(latest_block.data.transactions) >= 2
    /\ Len(chain) = MaxChain
    /\ chain[2].data.keys = {"transactions", "miner"}

\* the loop has appended its block and not yet called the callback
InCommit == mining_thread \in {"clear", "hook"}

\* C17: the callback, when configured, is called exactly once for each block
\* the Miner commits, with that block, after the append and the clearing of
\* the queue, and mine_single_block calls it before it returns; it is not
\* called without a block (empty queue, cancelled search) nor when it is
\* not configured.
C17_HookOncePerBlock ==
    /\ hook_calls =
          IF on_block_mined
          THEN SubSeq(chain, 2, Len(chain) - (IF InCommit THEN 1 ELSE 0))
          ELSE <<>>
    /\ mining_thread = "hook" =>
          /\ mined_block = latest_block
          /\ SeqRange(mined_block.data.transactions)
                \cap SeqRange(pending_data) = {}
    /\ \A data_now \in Clock, now \in Clock :
          LET r == mine_single_block(data_now, now)
          IN /\ r.ok = (pending_data # <<>>)
             /\ r.hook = IF r.ok /\ on_block_mined THEN r.block ELSE <<>>
             /\ r.ok => /\ r.chain = Append(chain, r.block[1])
                         /\ r.pending_data = <<>>

C17_Witness ==
    /\ on_block_mined
    /\ Len(hook_calls) >= 1
    /\ hook_calls[1] = chain[2]
    /\ mining_thread = "interrupted"
    /\ pending_data # <<>>

\* the places of the thread in _mine_block and up to the check of its result
InSearch == {"mine_while", "mine_test", "mine_nonce", "mined", "interrupted"}

IsPrefix(s, t) == Len(s) <= Len(t) /\ s = SubSeq(t, 1, Len(s))

\* C18: once the flag is set while the thread is in a nonce search, no step
\* appends the block of that search or any other block, the queue keeps
\* its entries (and those enqueued meanwhile), no callback is called, and
\* the thread goes on to the end of the round and of the loop only.
C18_CancelledSearchDiscarded ==
    [][(stop_mining /\ mining_thread \in InSearch \cup {"while"}) =>
          /\ chain' = chain
          /\ IsPrefix(pending_data, pending_data')
          /\ hook_calls' = hook_calls
          /\ stop_mining'
          /\ mining_thread' \in
                IF mining_thread = "while" THEN {"while", "none"}
                ELSE InSearch \cup {"while"}]_vars

C18_Witness ==
    /\ stop_mining
    /\ mining_thread = "mined"
    /\ HashPrefix(mined_block.hash, miner_difficulty) = Zeros(miner_difficulty)
    /\ Len(pending_data) > Len(mined_block.data.transactions)
    /\ Len(chain) = 2

\* C19: once the flag is set while the thread of the loop is alive, the
\* thread ends, from the idle wait as well as from a nonce search; with the
\* flag set the search does not enter another round of its loop, so at most
\* the nonce attempt under way is made and the search need not complete.
C19_CancelTerminates ==
    /\ (stop_mining /\ mining_thread # "none") ~> (mining_thread = "none")
    /\ [][(stop_mining /\ mining_thread = "mine_while") =>
              mining_thread' \in {"mine_while", "interrupted"}]_vars

C19_Witness ==
    /\ stop_mining
    /\ mining_thread = "interrupted"
    /\ mined_block.nonce > 0
    /\ HashPrefix(mined_block.hash, miner_difficulty) # Zeros(miner_difficulty)

\* C20: detect_fork answers (fork detected, full sync needed), L being the
\* chain length: index above L, (true, true); index below L and the hash of
\* the local block at that index, (false, false); index below L and another
\* hash, (true, true); index L and the rule satisfied against the latest
\* block, (false, false); index L and the rule not satisfied (link, hash or
\* difficulty), (true, true). It raises nothing.
C20_DetectFork ==
    \A b \in ReceivedBlocks :
        LET d == detect_fork(b)
            L == Len(chain)
            answer == <<d.fork_detected, d.needs_sync>>
        IN /\ ~d.fault
           /\ b.index > L => answer = <<TRUE, TRUE>>
           /\ (b.index < L /\ chain[b.index + 1].hash = b.hash) =>
                 answer = <<FALSE, FALSE>>
           /\ (b.index < L /\ chain[b.index + 1].hash # b.hash) =>
                 answer = <<TRUE, TRUE>>
           /\ (b.index = L /\ FourConditions(b, latest_block)) =>
                 answer = <<FALSE, FALSE>>
           /\ (b.index = L /\ ~FourConditions(b, latest_block)) =>
                 answer = <<TRUE, TRUE>>

C20_Witness ==
    /\ last.op = "detect_fork"
    /\ last.ok /\ last.needs_sync
    /\ last.reason = <<"Invalid next block, possible fork">>
    /\ Len(chain) = MaxChain
    /\ \E b \in ReceivedBlocks :
          b.index < Len(chain) /\ ~detect_fork(b).fork_detected
    /\ \E b \in ReceivedBlocks :
          b.index < Len(chain) /\ detect_fork(b).fork_detected
    /\ \E b \in ReceivedBlocks :
          b.index = Len(chain) /\ ~detect_fork(b).fork_detected

\* a candidate as section 4.4 wants it: a genesis block of index 0 and
\* previous hash '0' * 64, every later block satisfying the rule against
\* the block before it
FullyValid(c) ==
    /\ Len(c) > 0
    /\ c[1].index = 0
    /\ c[1].previous_hash = ZeroHash
    /\ \A i \in 2..Len(c) : FourConditions(c[i], c[i - 1])

\* C21: resolve_fork returns true exactly when it replaced the local chain,
\* and then by a longer chain; when no candidate is longer than the local
\* chain it returns false and the chain is as before. The queue is not
\* changed.
C21_ResolveForkOnlyLonger ==
    \A cl \in CompetingLists :
        LET r == resolve_fork(cl)
        IN /\ r.ok = (r.chain # chain)
           /\ r.ok => Len(r.chain) > Len(chain)
           /\ (\A i \in 1..Len(cl) : Len(cl[i]) <= Len(chain)) =>
                 (~r.ok /\ r.chain = chain)
           /\ r.pending_data = pending_data
           /\ ~r.fault

C21_Witness ==
    /\ last.op = "resolve_fork" /\ ~last.ok
    /\ Len(chain) = MaxChain
    /\ \E cl \in CompetingLists :
          /\ Len(cl) = 2 /\ cl[1] # cl[2]
          /\ Len(cl[1]) = Len(chain) /\ Len(cl[2]) = Len(chain)
          /\ FullyValid(cl[1]) /\ FullyValid(cl[2])
          /\ ~resolve_fork(cl).ok
          /\ cl[1][Len(chain) - 1] = cl[2][Len(chain) - 1]

\* C22: when some candidate of the list is fully valid and longer than the
\* local chain, resolve_fork makes the local chain the first of the longest
\* such candidates, whatever else the list holds.
C22_ResolveForkLongestFirst ==
    \A cl \in CompetingLists :
        LET r == resolve_fork(cl)
            good == {i \in 1..Len(cl) :
                        Len(cl[i]) > Len(chain) /\ FullyValid(cl[i])}
            best == {i \in good : \A j \in good :
                        \/ Len(cl[j]) < Len(cl[i])
                        \/ Len(cl[j]) = Len(cl[i]) /\ i <= j}
        IN good # {} =>
              /\ r.ok
              /\ \A i \in best : r.chain = cl[i]

C22_Witness ==
    /\ last.op = "resolve_fork"
    /\ Len(chain) = MaxChain - 2
    /\ \E cl \in CompetingLists :
          /\ Len(cl) = 2
          /\ FullyValid(cl[1]) /\ FullyValid(cl[2])
          /\ Len(cl[1]) = Len(chain) + 1 /\ Len(cl[2]) = Len(chain) + 2
          /\ resolve_fork(cl).chain = cl[2]
    /\ \E cl \in CompetingLists :
          /\ Len(cl) = 2 /\ cl[1] # cl[2]
          /\ FullyValid(cl[1]) /\ FullyValid(cl[2])
          /\ Len(cl[1]) = Len(chain) + 1 /\ Len(cl[2]) = Len(chain) + 1
          /\ resolve_fork(cl).chain = cl[1]

\* C23: the chain resolve_fork adopts has a first block of index 0 and
\* previous hash '0' * 64 and every later block satisfies is_valid_block
\* against the block before it; and a longer candidate that is not so does
\* not keep a shorter valid one after it in the list, still longer than the
\* local chain, from being adopted.
C23_ResolveForkOnlyValid ==
    \A cl \in CompetingLists :
        LET r == resolve_fork(cl)
        IN /\ r.ok =>
                 /\ r.chain[1].index = 0
                 /\ r.chain[1].previous_hash = ZeroHash
                 /\ \A i \in 2..Len(r.chain) :
                        is_valid_block(r.chain[i], r.chain[i - 1])
                 /\ \E i \in 1..Len(cl) : r.chain = cl[i]
           /\ (/\ Len(cl) = 2
               /\ Len(cl[1]) > Len(cl[2]) /\ Len(cl[2]) > Len(chain)
               /\ ~FullyValid(cl[1]) /\ FullyValid(cl[2])) =>
                 (r.ok /\ r.chain = cl[2])

C23_Witness ==
    /\ last.op = "resolve_fork"
    /\ \E cl \in CompetingLists :
          /\ Len(cl) = 2
          /\ Len(cl[1]) > Len(cl[2]) /\ Len(cl[2]) > Len(chain)
          /\ ~FullyValid(cl[1]) /\ FullyValid(cl[2])
          /\ resolve_fork(cl).chain = cl[2]
    /\ \E cl \in CompetingLists :
          /\ Len(cl) = 1 /\ Len(cl[1]) > Len(chain)
          /\ cl[1][1].index = 0 /\ cl[1][1].previous_hash # ZeroHash
          /\ \A i \in 2..Len(cl[1]) : is_valid_block(cl[1][i], cl[1][i - 1])
          /\ ~resolve_fork(cl).ok
    /\ \E cl \in CompetingLists :
          /\ Len(cl) = 1 /\ Len(cl[1]) > Len(chain)
          /\ cl[1][1].index # 0
          /\ \A i \in 2..Len(cl[1]) : is_valid_block(cl[1][i], cl[1][i - 1])
          /\ ~resolve_fork(cl).ok

\* the positions of the overlap of the local chain and c where the stored
\* hashes differ, counted from 0
Mismatches(c) ==
    {k \in 0..(Min(Len(chain), Len(c)) - 1) : chain[k + 1].hash # c[k + 1].hash}

\* C24: find_common_ancestor returns -1 when the blocks at position 0 differ,
\* k - 1 when k > 0 is the first position of the overlap whose stored hashes
\* differ, and the last position of the overlap when none differs; a call
\* leaves the chain and the queue as they are.
C24_FindCommonAncestor ==
    /\ \A c \in SyncChains :
          LET a == find_common_ancestor(c)
              diff == Mismatches(c)
          IN /\ 0 \in diff => a = -1
             /\ (diff # {} /\ 0 \notin diff) =>
                   \E k \in diff : /\ \A j \in diff : k <= j
                                   /\ a = k - 1
             /\ diff = {} => a = Min(Len(chain), Len(c)) - 1
    /\ last.op = "find_common_ancestor" =>
          \E c \in SyncChains : last.value = find_common_ancestor(c)

C24_Witness ==
    /\ last.op = "find_common_ancestor"
    /\ Len(chain) = MaxChain
    /\ last.value = Len(chain) - 2
    /\ \E c \in SyncChains :
          /\ Len(c) = Len(chain)
          /\ Mismatches(c) = {Len(chain) - 1}
          /\ find_common_ancestor(c) = last.value
    /\ \E c \in SyncChains : Len(c) > 0 /\ find_common_ancestor(c) = -1
    /\ \E c \in SyncChains :
          Len(c) > Len(chain) /\ find_common_ancestor(c) = Len(chain) - 1

\* the blocks of a segment whose stored hash has z leading '0' characters
WithZeros(segment, z) ==
    Cardinality({i \in 1..Len(segment) :
                    LeadingZeroCount(segment[i].hash) = z})

\* the segments _calculate_chain_work is called with: c[n:] of a chain
Segments == {After(c, n) : c \in SyncChains, n \in 0..(MaxChain + 2)}

SomeInvalidFrom(competing_chain, sync_from_index) ==
    \E i \in sync_from_index..(Len(competing_chain) - 1) :
        i > 0 /\ ~is_valid_block(competing_chain[i + 1], competing_chain[i])

\* C25: sync_missing_blocks called with sync_from_index >= len(chain) on a
\* competing chain with an invalid block at or after sync_from_index returns
\* failure and leaves the local chain exactly as it was at the call.
C25_FailedSyncRollsBack ==
    \A call \in SyncCalls :
        LET c == call[1]
            n == call[2]
            r == sync_missing_blocks(c, n)
        IN (n >= Len(chain) /\ n < Len(c) /\ SomeInvalidFrom(c, n)) =>
              (~r.ok /\ r.chain = chain)

\* C26: after a successful sync_missing_blocks with sync_from_index >=
\* len(chain) on a valid local chain, every appended block satisfies
\* is_valid_block against the block before it in the local chain, and every
\* block of the local chain links to the block before it and has its
\* position as index.
C26_SyncedChainLinked ==
    \A call \in SyncCalls :
        LET c == call[1]
            n == call[2]
            r == sync_missing_blocks(c, n)
        IN (n >= Len(chain) /\ r.ok /\ FullyValid(chain)) =>
              /\ \A i \in (Len(chain) + 1)..Len(r.chain) :
                     is_valid_block(r.chain[i], r.chain[i - 1])
              /\ \A i \in 2..Len(r.chain) :
                     /\ r.chain[i].previous_hash = r.chain[i - 1].hash
                     /\ r.chain[i].index = i - 1

\* what section 4.4 says of the fork branch of sync_missing_blocks
ForkBranchRule(c, n) ==
    LET r == sync_missing_blocks(c, n)
        a == find_common_ancestor(Upto(c, n + 1))
        more == calculate_chain_work(After(c, a + 1))
                > calculate_chain_work(After(chain, a + 1))
    IN /\ r.pending_data = pending_data
       /\ a = -1 => (~r.ok /\ r.chain = chain)
       /\ a # -1 =>
             /\ r.ok = more
             /\ r.ok => r.chain = Upto(chain, a + 1) \o After(c, a + 1)
             /\ ~r.ok => r.chain = chain

\* C27 as stated: for every sync_from_index with 0 <= sync_from_index <
\* len(chain), sync_missing_blocks fails without a common ancestor over
\* competing_chain[0..sync_from_index] and otherwise replaces the local
\* suffix after the ancestor with the competing one exactly when the
\* competing suffix has strictly more work.
C27_ForkBranch ==
    \A call \in SyncCalls :
        LET c == call[1]
            n == call[2]
        IN (0 <= n /\ n < Len(chain)) => ForkBranchRule(c, n)

\* C27 amended: the same, for sync_from_index < len(competing_chain); a
\* sync_from_index at or beyond the end of the competing chain is refused
\* as an invalid sync index and the local chain is unchanged.
C27_ForkBranchWithinCandidate ==
    \A call \in SyncCalls :
        LET c == call[1]
            n == call[2]
            r == sync_missing_blocks(c, n)
        IN /\ (0 <= n /\ n < Len(chain) /\ n < Len(c)) => ForkBranchRule(c, n)
           /\ (n < 0 \/ n >= Len(c)) =>
                 /\ ~r.ok /\ r.chain = chain
                 /\ r.reason = <<"Invalid sync index">>

C27_Witness ==
    /\ last.op = "sync_missing_blocks" /\ last.ok
    /\ last.reason[1] = "Chain replaced after fork at index"
    /\ \E c \in SyncChains, n \in 0..(Len(chain) - 1) :
          /\ n < Len(c) /\ Len(c) >= Len(chain)
          /\ find_common_ancestor(Upto(c, n + 1)) = Len(chain) - 2
          /\ c[Len(chain)] # chain[Len(chain)]
          /\ calculate_chain_work(After(c, Len(chain) - 1))
             = calculate_chain_work(After(chain, Len(chain) - 1))
          /\ ~sync_missing_blocks(c, n).ok
    /\ \E c \in SyncChains, n \in 0..(Len(chain) - 1) :
          /\ n < Len(c)
          /\ find_common_ancestor(Upto(c, n + 1)) = -1
          /\ ~sync_missing_blocks(c, n).ok
    /\ \E c \in SyncChains, n \in 0..(Len(chain) - 1) :
          /\ n >= Len(c)
          /\ sync_missing_blocks(c, n).reason = <<"Invalid sync index">>

\* the identities of a sequence of votes
Voters(votes) == {votes[i].voter_id : i \in 1..Len(votes)}

\* C29: detect_double_spending returns one record for an identity exactly
\* when the identity has a vote in the local chain and in the competing
\* chain and its first vote in the one differs from its first vote in the
\* other, the record holding the two first votes and the indexes of their
\* blocks; otherwise it returns no record for the identity.
C29_OneConflictPerIdentity ==
    \A c \in VoteChains :
        LET out == detect_double_spending(c)
            ours == our_transactions(VotesOf(chain))
            theirs == our_transactions(VotesOf(c))
            conflict(id) ==
                \E o \in ours, t \in theirs :
                    o.voter_id = id /\ t.voter_id = id /\ o.vote # t.vote
        IN \A id \in Voters(VotesOf(chain)) \cup Voters(VotesOf(c)) :
              LET records == {i \in 1..Len(out) : out[i].voter_id = id}
              IN /\ Cardinality(records) = IF conflict(id) THEN 1 ELSE 0
                 /\ \A i \in records :
                        \E o \in ours, t \in theirs :
                            /\ o.voter_id = id /\ t.voter_id = id
                            /\ out[i].our_chain_vote = o.vote
                            /\ out[i].our_chain_block = o.block_index
                            /\ out[i].competing_chain_vote = t.vote
                            /\ out[i].competing_chain_block = t.block_index

\* the blocks mine_block is called on: the block mine_pending_data would
\* build now, the blocks of the chain, and blocks of the chain set back to
\* an earlier or later nonce
MineInputs ==
    {Block(Len(chain), now, TxData(pending_data, MinerAddress),
           latest_block.hash) : now \in Clock}
    \cup ChainBlocks
    \cup {[[b EXCEPT !.nonce = k]
              EXCEPT !.hash = calculate_hash([b EXCEPT !.nonce = k])] :
             b \in ChainBlocks, k \in 0..MaxChain}

MineDifficulties == 0..Len(ZeroHash.hex)

\* C30: on a block whose stored hash is the hash of its contents mine_block
\* changes only nonce and hash; the block it leaves stores the hash of its
\* contents, with at least d leading '0' characters; its nonce is the
\* smallest one from the starting nonce on whose hash has them; so a block
\* that has them already is left as it is, and mining twice is mining once.
C30_MineBlock ==
    \A b \in MineInputs, d \in MineDifficulties :
        is_valid(b) =>
            LET m == mine_block(b, d)
                At(n) == calculate_hash([b EXCEPT !.nonce = n])
            IN /\ [m EXCEPT !.nonce = b.nonce, !.hash = b.hash] = b
               /\ m.hash = calculate_hash(m)
               /\ LeadingZeroCount(m.hash) >= d
               /\ m.nonce >= b.nonce
               /\ \A n \in b.nonce..(m.nonce - 1) : LeadingZeroCount(At(n)) < d
               /\ LeadingZeroCount(b.hash) >= d => m = b
               /\ mine_block(m, d) = m

C30_Witness ==
    /\ last.op = "mine_pending_data" /\ last.ok
    /\ last.block = <<latest_block>>
    /\ latest_block.nonce > 1
    /\ mine_block(Block(latest_block.index, latest_block.timestamp,
                        latest_block.data, latest_block.previous_hash),
                  difficulty) = latest_block
    /\ \E b \in MineInputs, d \in MineDifficulties :
          /\ b.nonce > 0 /\ is_valid(b)
          /\ mine_block(b, d).nonce > b.nonce

\* C31: from_dict(to_dict(b)) has the six fields of b, the stored hash
\* included, whether or not that hash is the hash of the contents, and its
\* record is the record of b; so is_valid answers the same for both, and a
\* block that is not valid is not valid after the round trip.
C31_RoundTrip ==
    \A b \in RecordBlocks :
        LET loaded == from_dict(to_dict(b))
        IN /\ loaded = b
           /\ loaded.hash = b.hash
           /\ to_dict(loaded) = to_dict(b)
           /\ is_valid(loaded) = is_valid(b)

C31_Witness ==
    /\ last.op = "from_dict"
    /\ Len(chain) > 1
    /\ \E b \in RecordBlocks :
          /\ ~is_valid(b)
          /\ b.hash # calculate_hash(b)
          /\ last.value = from_dict(to_dict(b))
          /\ last.value.hash = b.hash
          /\ ~is_valid(last.value)

\* C33: from_dict of a record with a required field absent or None ends in
\* a fault; no block is built from it.
C33_BrokenRecordFaults ==
    \A block_dict \in BrokenRecords : from_dict(block_dict) = KeyError

\* the transactions of a chain that Voter.cast_vote built
CastVotes(c) ==
    UNION {{c[i].data.transactions[k] :
               k \in {n \in 1..Len(c[i].data.transactions) :
                         {"type", "candidate", "election_id"}
                             \subseteq c[i].data.transactions[n].keys}} :
              i \in 1..Len(c)}

\* C34: when the local chain and the competing chain each hold a vote built
\* by Voter.cast_vote of one voter for different candidates,
\* detect_double_spending returns a record for that voter.
C34_DoubleVoteReported ==
    \A c \in VoteChains :
        \A ours \in CastVotes(chain), theirs \in CastVotes(c) :
            (ours.voter_id = theirs.voter_id
             /\ ours.candidate # theirs.candidate) =>
                \E i \in 1..Len(detect_double_spending(c)) :
                    detect_double_spending(c)[i].voter_id = ours.voter_id

\* the vote transactions of voter_id in the chain c, each with its place
VotesIn(c, voter_id) ==
    {<<i, k>> \in (1..Len(c)) \X (1..MaxPayload) :
        /\ k <= Len(c[i].data.transactions)
        /\ TxType(c[i].data.transactions[k]) = "vote"
        /\ c[i].data.transactions[k].voter_id = voter_id}

\* C35: Election.cast_vote of a voter who has a vote in the chain, on an
\* election that is not active, or for a candidate that is not in the list,
\* is rejected and leaves chain and queue as they are; an accepted call puts
\* the vote in the chain; the chain never holds two votes of one voter.
C35_OneVotePerVoter ==
    /\ \A w \in VoterIds : Cardinality(VotesIn(chain, w)) <= 1
    /\ \A voter_id \in VoterIds, candidate \in Choices, now \in Clock :
          LET r == election_cast_vote(voter_id, candidate, now, now)
          IN /\ (VotesIn(chain, voter_id) # {} \/ ~is_active
                 \/ candidate \notin Candidates) =>
                    (~r.ok /\ r.chain = chain /\ r.pending_data = pending_data)
             /\ r.ok => VotesIn(r.chain, voter_id) # {}
             /\ \A w \in VoterIds : Cardinality(VotesIn(r.chain, w)) <= 1

C35_Witness ==
    /\ last.op = "cast_vote" /\ ~last.ok
    /\ last.reason = "Voter has already cast a vote"
    /\ is_active
    /\ \E w \in VoterIds : Cardinality(VotesIn(chain, w)) = 1


\* C32: on a non-empty local chain, for every block and every sequence of
\* blocks, the empty one and the ones that fail a validation rule included,
\* add_block, is_valid_chain, replace_chain, fork_detection_and_resolution,
\* detect_fork, resolve_fork, find_common_ancestor and sync_missing_blocks
\* return a boolean, a reason or an index, and none ends in a fault.
C32_NeverFaults ==
    /\ chain # <<>>
    /\ \A block \in ReceivedBlocks :
          /\ ~add_block(block).fault /\ add_block(block).ok \in BOOLEAN
          /\ ~fork_detection_and_resolution(block).fault
          /\ fork_detection_and_resolution(block).ok \in BOOLEAN
          /\ ~detect_fork(block).fault
          /\ detect_fork(block).fork_detected \in BOOLEAN
    /\ \A c \in CandidateChains \cup SyncChains :
          /\ is_valid_chain(c) \in BOOLEAN
          /\ ~replace_chain(c).fault /\ replace_chain(c).ok \in BOOLEAN
          /\ find_common_ancestor(c) \in -1..(Len(chain) - 1)
          /\ \A i \in -1..(Len(chain) + 1) :
                /\ ~sync_missing_blocks(c, i).fault
                /\ sync_missing_blocks(c, i).ok \in BOOLEAN
    /\ \A competing_chains \in CompetingLists \cup {<< <<>> >>} :
          /\ ~resolve_fork(competing_chains).fault
          /\ resolve_fork(competing_chains).ok \in BOOLEAN

\* a next block that fails the validation was answered with a reason
C32_Witness ==
    /\ last.op = "detect_fork"
    /\ ~last.fault
    /\ last.reason = <<"Invalid next block, possible fork">>
    /\ <<>> \in CandidateChains
    /\ ~replace_chain(<<>>).ok


\* the chains the operations of Chain, Miner and ForkHandler leave when called
\* in this state, but for sync_missing_blocks
ChainsLeft ==
    {add_data(data).chain : data \in {Payload(k) : k \in 1..MaxPayload}}
    \cup {mine_pending_data(MinerAddress, now).chain : now \in Clock}
    \cup {mine_single_block(now, now).chain : now \in Clock}
    \cup {add_block(block).chain : block \in ReceivedBlocks}
    \cup {fork_detection_and_resolution(block).chain : block \in ReceivedBlocks}
    \cup {handle_received_block(block).chain : block \in ReceivedBlocks}
    \cup {replace_chain(c).chain : c \in CandidateChains}
    \cup {resolve_conflicts(chains).chain : chains \in CompetingLists}
    \cup {resolve_fork(chains).chain : chains \in CompetingLists}

\* sync_missing_blocks took the fork branch and replaced the local suffix
ForkReplaced(call) ==
    LET r == sync_missing_blocks(call[1], call[2])
    IN /\ call[2] < Len(chain)
       /\ r.ok
       /\ r.reason[1] = "Chain replaced after fork at index"

\* C36: the local chain never gets shorter: after any operation of Chain, of
\* Miner (mine_single_block, the background loop) or of ForkHandler,
\* sync_missing_blocks in both branches included, the chain is at least as
\* long as before.
C36_LengthNeverDecreases ==
    /\ [](\A c \in ChainsLeft : Len(c) >= Len(chain))
    /\ [](\A call \in SyncCalls :
             Len(sync_missing_blocks(call[1], call[2]).chain) >= Len(chain))
    /\ [][Len(chain') >= Len(chain)]_vars

\* C36, amended: only sync_missing_blocks that replaces the local suffix in
\* its fork branch leaves a shorter chain; every other operation, the steps of
\* the background loop and every other outcome of sync_missing_blocks leave
\* the chain at least as long as before.
C36_OnlyForkSyncShortens ==
    /\ [](\A c \in ChainsLeft : Len(c) >= Len(chain))
    /\ [](\A call \in SyncCalls :
             \/ Len(sync_missing_blocks(call[1], call[2]).chain) >= Len(chain)
             \/ ForkReplaced(call))
    /\ [][Len(chain') >= Len(chain)]_vars

\* the loop has appended its block to a chain of two blocks, and a candidate
\* of more work would now leave a chain of two blocks
C36_Witness ==
    /\ mining_thread = "clear"
    /\ Len(chain) = 3
    /\ \E call \in SyncCalls :
          /\ ForkReplaced(call)
          /\ Len(sync_missing_blocks(call[1], call[2]).chain) = 2


\* C37: however the background loop interleaves with mine_single_block and
\* mine_pending_data called on the same chain, each payload handed to add_data
\* is in the transactions of at most one block of the chain, and every block
\* that mining appended carries a non-empty list of transactions.
C37_MinedOnceAndNonEmpty ==
    /\ \A i \in 1..Len(chain), j \in 1..Len(chain) :
          i # j => TxIds(chain[i].data.transactions)
                       \cap TxIds(chain[j].data.transactions) = {}
    /\ \A i \in 2..Len(chain) : chain[i].data.transactions # <<>>


\* C38: whatever difficulty the Miner was constructed with (the chain's, or
\* one set lower or higher), every block it appends through mine_single_block
\* satisfies the chain's is_valid_block against its predecessor, so that
\* is_valid_chain of the local chain stays true after the Miner's operations.
C38_MinerBlocksValidForChain ==
    /\ is_valid_chain(chain)
    /\ (last.op = "mine_single_block" /\ last.ok) =>
          is_valid_block(chain[Len(chain)], chain[Len(chain) - 1])


\* index == position in a chain
IndexIsPosition(c) == \A i \in 1..Len(c) : c[i].index = i - 1

\* C39: when sync_missing_blocks takes the fork branch (the index to sync
\* from is less than the length of the local chain) on a local chain that
\* satisfies is_valid_chain and index == position, and replaces the local
\* suffix, the chain it leaves satisfies is_valid_chain and index == position:
\* a candidate suffix with a broken link, a wrong index, a hash that does not
\* match its contents or too little difficulty is never adopted.
C39_ForkSyncKeepsChainValid ==
    (is_valid_chain(chain) /\ IndexIsPosition(chain)) =>
        \A call \in SyncCalls :
            LET r == sync_missing_blocks(call[1], call[2])
            IN (call[2] < Len(chain) /\ r.ok) =>
                   /\ is_valid_chain(r.chain)
                   /\ IndexIsPosition(r.chain)


\* C40: from the same chain and for the same received block,
\* handle_received_block and fork_detection_and_resolution leave the same
\* chain: both append the block exactly when its index is the length of the
\* chain and is_valid_block holds against the latest block, and both leave the
\* chain as it is otherwise; and detect_fork reports (false, "Valid next
\* block") for exactly the blocks they append.
C40_ReceivePathsAgree ==
    \A b \in ReceivedBlocks :
        LET h == handle_received_block(b)
            f == fork_detection_and_resolution(b)
            d == detect_fork(b)
            accept == /\ b.index = Len(chain)
                      /\ is_valid_block(b, latest_block)
        IN /\ h.chain = f.chain
           /\ accept => h.chain = Append(chain, b)
           /\ ~accept => h.chain = chain
           /\ accept <=> (~d.fork_detected /\ d.message = <<"Valid next block">>)

\* the ForkHandler has appended a block to a chain that now turns down, on
\* both paths, a next block that fails the validation
C40_Witness ==
    /\ last.op = "handle_received_block"
    /\ last.ok
    /\ last.reason = "Block added to chain"
    /\ \E b \in ReceivedBlocks :
          /\ b.index = Len(chain)
          /\ handle_received_block(b).reason = "Invalid block"
          /\ fork_detection_and_resolution(b).reason = "Invalid next block"
          /\ detect_fork(b).fork_detected

====
